---- MODULE Spec2Model ----
(***************************************************************************)
(* A model of the Alpha Vantage client (alphavantage_cli/client.py): the   *)
(* throttle (_rate_limit), the request pipeline (_make_request) and the    *)
(* classification of error/notice replies (_check_api_errors).             *)
(*                                                                         *)
(* Python text is modelled as a sequence of one-character strings so that  *)
(* substring tests and str.lower() are computed, not assumed.              *)
(***************************************************************************)
EXTENDS Integers, Sequences, FiniteSets, TLC

(***************************************************************************)
(* Bounds of the model.                                                    *)
(***************************************************************************)
\* the wall clock runs from 0 to MaxClock
MaxClock == 6
\* rate_limit_delay is drawn from 1..MaxDelay
MaxDelay == 2
\* number of _make_request calls in a sequential or threaded behaviour
MaxCalls == 3
\* number of threads sharing one client in the threaded behaviours
NThreads == 2

(***************************************************************************)
(* Text literals of client.py and the sample texts a reply may carry.      *)
(***************************************************************************)
\* "Invalid API call"
InvalidApiCallNeedle ==
    <<"I", "n", "v", "a", "l", "i", "d", " ", "A", "P", "I", " ", "c", "a",
      "l", "l">>

\* "API key"
ApiKeyNeedle ==
    <<"A", "P", "I", " ", "k", "e", "y">>

\* "premium"
PremiumNeedle ==
    <<"p", "r", "e", "m", "i", "u", "m">>

\* "subscription"
SubscriptionNeedle ==
    <<"s", "u", "b", "s", "c", "r", "i", "p", "t", "i", "o", "n">>

\* "rate limit"
RateLimitNeedle ==
    <<"r", "a", "t", "e", " ", "l", "i", "m", "i", "t">>

\* "frequent"
FrequentNeedle ==
    <<"f", "r", "e", "q", "u", "e", "n", "t">>

\* "Premium feature required: "
PremiumPrefix ==
    <<"P", "r", "e", "m", "i", "u", "m", " ", "f", "e", "a", "t", "u", "r",
      "e", " ", "r", "e", "q", "u", "i", "r", "e", "d", ":", " ">>

\* "Invalid JSON response: "
InvalidJsonPrefix ==
    <<"I", "n", "v", "a", "l", "i", "d", " ", "J", "S", "O", "N", " ", "r",
      "e", "s", "p", "o", "n", "s", "e", ":", " ">>

\* "Request timed out"
TimedOutText ==
    <<"R", "e", "q", "u", "e", "s", "t", " ", "t", "i", "m", "e", "d", " ",
      "o", "u", "t">>

\* "Connection error"
ConnectionErrorText ==
    <<"C", "o", "n", "n", "e", "c", "t", "i", "o", "n", " ", "e", "r", "r",
      "o", "r">>

\* "Invalid API key"
InvalidApiKeyText ==
    <<"I", "n", "v", "a", "l", "i", "d", " ", "A", "P", "I", " ", "k", "e",
      "y">>

\* "Rate limit exceeded"
RateLimitExceededText ==
    <<"R", "a", "t", "e", " ", "l", "i", "m", "i", "t", " ", "e", "x", "c",
      "e", "e", "d", "e", "d">>

\* "HTTP error "
HttpErrorPrefix ==
    <<"H", "T", "T", "P", " ", "e", "r", "r", "o", "r", " ">>

\* ": "
ColonSpace ==
    <<":", " ">>

\* "Request failed: "
RequestFailedPrefix ==
    <<"R", "e", "q", "u", "e", "s", "t", " ", "f", "a", "i", "l", "e", "d",
      ":", " ">>

\* "Invalid API call for symbol XYZ"
TxtInvalidSymbol ==
    <<"I", "n", "v", "a", "l", "i", "d", " ", "A", "P", "I", " ", "c", "a",
      "l", "l", " ", "f", "o", "r", " ", "s", "y", "m", "b", "o", "l", " ",
      "X", "Y", "Z">>

\* "Get a free API key for Premium plans"
TxtKeyAndPremium ==
    <<"G", "e", "t", " ", "a", " ", "f", "r", "e", "e", " ", "A", "P", "I",
      " ", "k", "e", "y", " ", "f", "o", "r", " ", "P", "r", "e", "m", "i",
      "u", "m", " ", "p", "l", "a", "n", "s">>

\* "This is a Premium endpoint"
TxtPremium ==
    <<"T", "h", "i", "s", " ", "i", "s", " ", "a", " ", "P", "r", "e", "m",
      "i", "u", "m", " ", "e", "n", "d", "p", "o", "i", "n", "t">>

\* "SUBSCRIPTION required"
TxtSubscription ==
    <<"S", "U", "B", "S", "C", "R", "I", "P", "T", "I", "O", "N", " ", "r",
      "e", "q", "u", "i", "r", "e", "d">>

\* "Rate Limit reached"
TxtRateLimit ==
    <<"R", "a", "t", "e", " ", "L", "i", "m", "i", "t", " ", "r", "e", "a",
      "c", "h", "e", "d">>

\* "Requests too Frequent"
TxtFrequent ==
    <<"R", "e", "q", "u", "e", "s", "t", "s", " ", "t", "o", "o", " ", "F",
      "r", "e", "q", "u", "e", "n", "t">>

\* "Our standard API call frequency is 25 requests per day."
TxtCallFrequency ==
    <<"O", "u", "r", " ", "s", "t", "a", "n", "d", "a", "r", "d", " ", "A",
      "P", "I", " ", "c", "a", "l", "l", " ", "f", "r", "e", "q", "u", "e",
      "n", "c", "y", " ", "i", "s", " ", "2", "5", " ", "r", "e", "q", "u",
      "e", "s", "t", "s", " ", "p", "e", "r", " ", "d", "a", "y", ".">>

\* "boom"
TxtCause ==
    <<"b", "o", "o", "m">>


(***************************************************************************)
(* Python str operations.                                                  *)
(***************************************************************************)
UpperLetters ==
    <<"A", "B", "C", "D", "E", "F", "G", "H", "I", "J", "K", "L", "M", "N",
      "O", "P", "Q", "R", "S", "T", "U", "V", "W", "X", "Y", "Z">>

LowerLetters ==
    <<"a", "b", "c", "d", "e", "f", "g", "h", "i", "j", "k", "l", "m", "n",
      "o", "p", "q", "r", "s", "t", "u", "v", "w", "x", "y", "z">>

Digits == <<"0", "1", "2", "3", "4", "5", "6", "7", "8", "9">>

LowerChar(c) ==
    IF \E i \in 1..Len(UpperLetters) : UpperLetters[i] = c
    THEN LowerLetters[CHOOSE i \in 1..Len(UpperLetters) : UpperLetters[i] = c]
    ELSE c

\* str.lower()
StrLower(s) == [i \in 1..Len(s) |-> LowerChar(s[i])]

\* `needle in hay` for two str operands: needle occurs as a contiguous run
StrContains(needle, hay) ==
    \E i \in 0..(Len(hay) - Len(needle)) :
        \A j \in 1..Len(needle) : hay[i + j] = needle[j]

\* str(n) of a non-negative int, as used by an f-string
RECURSIVE IntToStr(_)
IntToStr(n) ==
    IF n < 10 THEN <<Digits[n + 1]>>
    ELSE IntToStr(n \div 10) \o <<Digits[(n % 10) + 1]>>

(***************************************************************************)
(* JSON values of a reply.  A value is text, a number, null or a list of   *)
(* texts; every value record has the same fields so values compare.        *)
(***************************************************************************)
Str(s) == [t |-> "str", s |-> s, items |-> <<>>]

Num == [t |-> "num", s |-> <<>>, items |-> <<>>]

Null == [t |-> "null", s |-> <<>>, items |-> <<>>]

List(items) == [t |-> "list", s |-> <<>>, items |-> items]

\* Python `needle in v` for a str needle: substring test on a str, element
\* test on a list, TypeError on a value that is not a container.
PyIn(needle, v) ==
    IF v.t = "str" THEN [raised |-> "none", val |-> StrContains(needle, v.s)]
    ELSE IF v.t = "list"
    THEN [raised |-> "none",
          val |-> \E i \in 1..Len(v.items) : v.items[i] = needle]
    ELSE [raised |-> "TypeError", val |-> FALSE]

\* Python `needle in v.lower()`: only str has lower()
PyInLower(needle, v) ==
    IF v.t = "str"
    THEN [raised |-> "none", val |-> StrContains(needle, StrLower(v.s))]
    ELSE [raised |-> "AttributeError", val |-> FALSE]

(***************************************************************************)
(* Exceptions.  AlphaVantageError is the base class; the others listed in  *)
(* Taxonomy derive from it.  A raised exception is [kind, msg].            *)
(***************************************************************************)
Taxonomy ==
    {"AlphaVantageError", "APIKeyError", "RateLimitError",
     "InvalidSymbolError", "NetworkError"}

Raise(kind, msg) == [kind |-> kind, msg |-> msg]

NoError == [kind |-> "none", msg |-> Null]

(***************************************************************************)
(* AlphaVantageClient._check_api_errors                                    *)
(***************************************************************************)
\* the "Error Message" branch
CheckErrorMessage(error_msg) ==
    LET hit == PyIn(InvalidApiCallNeedle, error_msg) IN
    IF hit.raised # "none" THEN Raise(hit.raised, Null)
    ELSE IF hit.val THEN Raise("InvalidSymbolError", error_msg)
    ELSE Raise("AlphaVantageError", error_msg)

\* CheckInformation with the premium test placed before the API-key test
CheckInformationPremiumFirst(info_msg) ==
    LET key == PyIn(ApiKeyNeedle, info_msg)
        prem == PyInLower(PremiumNeedle, info_msg)
        sub == PyInLower(SubscriptionNeedle, info_msg)
    IN  IF prem.raised # "none" THEN Raise(prem.raised, Null)
        ELSE IF prem.val \/ sub.val
        THEN Raise("AlphaVantageError", Str(PremiumPrefix \o info_msg.s))
        ELSE IF key.val THEN Raise("APIKeyError", info_msg)
        ELSE Raise("AlphaVantageError", info_msg)

\* the "Information" branch
CheckInformation(info_msg) ==
    LET key == PyIn(ApiKeyNeedle, info_msg)
        prem == PyInLower(PremiumNeedle, info_msg)
        sub == PyInLower(SubscriptionNeedle, info_msg)
    IN  IF key.raised # "none" THEN Raise(key.raised, Null)
        ELSE IF key.val THEN Raise("APIKeyError", info_msg)
        ELSE IF prem.raised # "none" THEN Raise(prem.raised, Null)
        ELSE IF prem.val \/ sub.val
        THEN Raise("AlphaVantageError", Str(PremiumPrefix \o info_msg.s))
        ELSE Raise("AlphaVantageError", info_msg)

\* CheckNote comparing the text as it is, without lower()
CheckNoteCaseSensitive(note_msg) ==
    LET rate == PyIn(RateLimitNeedle, note_msg)
        freq == PyIn(FrequentNeedle, note_msg)
    IN  IF rate.raised # "none" THEN Raise(rate.raised, Null)
        ELSE IF rate.val \/ freq.val THEN Raise("RateLimitError", note_msg)
        ELSE Raise("AlphaVantageError", note_msg)

\* the "Note" branch
CheckNote(note_msg) ==
    LET rate == PyInLower(RateLimitNeedle, note_msg)
        freq == PyInLower(FrequentNeedle, note_msg)
    IN  IF rate.raised # "none" THEN Raise(rate.raised, Null)
        ELSE IF rate.val \/ freq.val THEN Raise("RateLimitError", note_msg)
        ELSE Raise("AlphaVantageError", note_msg)

\* CheckApiErrors without the "Note" check
CheckApiErrorsNoNote(data) ==
    IF "Error Message" \in DOMAIN data
    THEN CheckErrorMessage(data["Error Message"])
    ELSE IF "Information" \in DOMAIN data
    THEN CheckInformation(data["Information"])
    ELSE NoError

\* CheckApiErrors looking at "Note" before "Information"
CheckApiErrorsNoteFirst(data) ==
    IF "Error Message" \in DOMAIN data
    THEN CheckErrorMessage(data["Error Message"])
    ELSE IF "Note" \in DOMAIN data
    THEN CheckNote(data["Note"])
    ELSE IF "Information" \in DOMAIN data
    THEN CheckInformation(data["Information"])
    ELSE NoError

\* data is a mapping from top-level keys to values
CheckApiErrors(data) ==
    IF "Error Message" \in DOMAIN data
    THEN CheckErrorMessage(data["Error Message"])
    ELSE IF "Information" \in DOMAIN data
    THEN CheckInformation(data["Information"])
    ELSE IF "Note" \in DOMAIN data
    THEN CheckNote(data["Note"])
    ELSE NoError

(***************************************************************************)
(* AlphaVantageClient._make_request, the try block and its handlers.       *)
(*                                                                         *)
(* What the transport does with one dispatch is a record                   *)
(*   [kind, status, json_ok, body, text]                                   *)
(* kind "response": a reply with an HTTP status and a body that parses as  *)
(* JSON (json_ok) to the mapping body; any other kind is the class of the  *)
(* requests exception that session.get raises, text being str(e).          *)
(***************************************************************************)
NoBody == <<>>

\* RaisesHTTPError for the server errors only
RaisesHTTPErrorServerOnly(status) == 500 <= status /\ status < 600

\* requests.Response.raise_for_status raises HTTPError for 4xx and 5xx
RaisesHTTPError(status) == 400 <= status /\ status < 600

\* the classes of requests.exceptions an `except cls` clause catches
Catches(cls, kind) ==
    IF cls = "Timeout" THEN kind \in {"Timeout", "ConnectTimeout"}
    ELSE IF cls = "ConnectionError"
    THEN kind \in {"ConnectionError", "ConnectTimeout"}
    ELSE IF cls = "HTTPError" THEN kind = "HTTPError"
    ELSE IF cls = "RequestException"
    THEN kind \in {"Timeout", "ConnectTimeout", "ConnectionError",
                   "HTTPError", "TooManyRedirects"}
    ELSE FALSE

\* TryBlock falling back to an empty mapping when the body is not JSON
TryBlockJsonFallback(out) ==
    IF out.kind # "response"
    THEN [kind |-> out.kind, msg |-> Str(out.text), data |-> NoBody]
    ELSE IF RaisesHTTPError(out.status)
    THEN [kind |-> "HTTPError", msg |-> Str(out.text), data |-> NoBody]
    ELSE IF ~out.json_ok
    THEN [kind |-> "ok", msg |-> Null, data |-> NoBody]
    ELSE LET err == CheckApiErrors(out.body) IN
         IF err.kind # "none"
         THEN [kind |-> err.kind, msg |-> err.msg, data |-> NoBody]
         ELSE [kind |-> "ok", msg |-> Null, data |-> out.body]

\* what the body of the try block raises or returns: [kind, msg, data]
TryBlock(out) ==
    IF out.kind # "response"
    THEN [kind |-> out.kind, msg |-> Str(out.text), data |-> NoBody]
    ELSE IF RaisesHTTPError(out.status)
    THEN [kind |-> "HTTPError", msg |-> Str(out.text), data |-> NoBody]
    ELSE IF ~out.json_ok
    THEN [kind |-> "AlphaVantageError",
          msg |-> Str(InvalidJsonPrefix \o out.text), data |-> NoBody]
    ELSE LET err == CheckApiErrors(out.body) IN
         IF err.kind # "none"
         THEN [kind |-> err.kind, msg |-> err.msg, data |-> NoBody]
         ELSE [kind |-> "ok", msg |-> Null, data |-> out.body]

\* HttpErrorHandler without the 429 branch
HttpErrorHandlerNo429(status, text) ==
    IF status = 401 THEN Raise("APIKeyError", Str(InvalidApiKeyText))
    ELSE Raise("NetworkError",
               Str(HttpErrorPrefix \o IntToStr(status) \o ColonSpace \o text))

\* the HTTPError handler
HttpErrorHandler(status, text) ==
    IF status = 401 THEN Raise("APIKeyError", Str(InvalidApiKeyText))
    ELSE IF status = 429
    THEN Raise("RateLimitError", Str(RateLimitExceededText))
    ELSE Raise("NetworkError",
               Str(HttpErrorPrefix \o IntToStr(status) \o ColonSpace \o text))

\* ExceptClauses ending in a catch-all that wraps whatever is left
ExceptClausesCatchAll(r, out) ==
    IF Catches("Timeout", r.kind)
    THEN Raise("NetworkError", Str(TimedOutText))
    ELSE IF Catches("ConnectionError", r.kind)
    THEN Raise("NetworkError", Str(ConnectionErrorText))
    ELSE IF Catches("HTTPError", r.kind)
    THEN HttpErrorHandler(out.status, out.text)
    ELSE Raise("NetworkError", Str(RequestFailedPrefix \o r.msg.s))

\* the except clauses, tried in order; anything they do not catch propagates
ExceptClauses(r, out) ==
    IF Catches("Timeout", r.kind)
    THEN Raise("NetworkError", Str(TimedOutText))
    ELSE IF Catches("ConnectionError", r.kind)
    THEN Raise("NetworkError", Str(ConnectionErrorText))
    ELSE IF Catches("HTTPError", r.kind)
    THEN HttpErrorHandler(out.status, out.text)
    ELSE IF Catches("RequestException", r.kind)
    THEN Raise("NetworkError", Str(RequestFailedPrefix \o out.text))
    ELSE Raise(r.kind, r.msg)

\* MakeRequestOutcome returning an empty mapping instead of raising
\* NetworkError
MakeRequestOutcomeFallback(out) ==
    LET r == TryBlock(out) IN
    IF r.kind = "ok" THEN r
    ELSE LET e == ExceptClauses(r, out) IN
         IF e.kind = "NetworkError"
         THEN [kind |-> "ok", msg |-> Null, data |-> NoBody]
         ELSE [kind |-> e.kind, msg |-> e.msg, data |-> NoBody]

\* the outcome of _make_request for a transport outcome: [kind, msg, data],
\* kind "ok" being a normal return of data
MakeRequestOutcome(out) ==
    LET r == TryBlock(out) IN
    IF r.kind = "ok" THEN r
    ELSE LET e == ExceptClauses(r, out) IN
         [kind |-> e.kind, msg |-> e.msg, data |-> NoBody]

\* AddApiKey without the copy: the caller's mapping is the one written to
AddApiKeyInPlace(params, key) ==
    [caller |-> [k \in DOMAIN params \cup {"apikey"} |->
                    IF k = "apikey" THEN key ELSE params[k]],
     sent |-> [k \in DOMAIN params \cup {"apikey"} |->
                  IF k = "apikey" THEN key ELSE params[k]]]

\* params.copy() and params["apikey"] = self.api_key: the caller's mapping
\* and the mapping that is sent
AddApiKey(params, key) ==
    [caller |-> params,
     sent |-> [k \in DOMAIN params \cup {"apikey"} |->
                  IF k = "apikey" THEN key ELSE params[k]]]

(***************************************************************************)
(* The inputs of the model: the queries the endpoint adapters build and    *)
(* what the transport may do with a dispatch.                              *)
(***************************************************************************)
\* StocksEndpoint.get_quote("AAPL")
QuoteQuery == [function |-> "GLOBAL_QUOTE", symbol |-> "AAPL"]

\* StocksEndpoint.get_intraday("MSFT")
IntradayQuery ==
    [function |-> "TIME_SERIES_INTRADAY", symbol |-> "MSFT",
     interval |-> "5min", adjusted |-> "true", outputsize |-> "compact"]

Queries == {QuoteQuery, IntradayQuery}

ErrorKeys == {"Error Message", "Information", "Note"}

\* the values an error/notice key may carry
Values ==
    {Str(TxtInvalidSymbol), Str(TxtKeyAndPremium), Str(TxtPremium),
     Str(TxtSubscription), Str(TxtRateLimit), Str(TxtFrequent),
     Str(TxtCallFrequency), Num, List(<<ApiKeyNeedle>>)}

\* the data block of a reply
QuoteBlock == Str(<<"1", "5", "0">>)

\* a reply body: any subset of the error/notice keys, each with any value,
\* with or without a data block
Bodies ==
    UNION {
        UNION {
            {e, [k \in S \cup {"Global Quote"} |->
                    IF k = "Global Quote" THEN QuoteBlock ELSE e[k]]}
            : e \in [S -> Values]}
        : S \in SUBSET ErrorKeys}

BodySample ==
    {[k \in {"Global Quote"} |-> QuoteBlock],
     [k \in {"Error Message"} |-> Str(TxtInvalidSymbol)],
     [k \in {"Note"} |-> Str(TxtRateLimit)]}

Statuses == {200, 204, 304, 401, 404, 429, 500}

RequestsExceptions ==
    {"Timeout", "ConnectTimeout", "ConnectionError", "TooManyRedirects"}

TransportFaults ==
    {[kind |-> k, status |-> 0, json_ok |-> FALSE, body |-> NoBody,
      text |-> TxtCause] : k \in RequestsExceptions}

Responses(statuses, bodies) ==
    {[kind |-> "response", status |-> s, json_ok |-> TRUE, body |-> b,
      text |-> TxtCause] : s \in statuses, b \in bodies}

Unparsable(statuses) ==
    {[kind |-> "response", status |-> s, json_ok |-> FALSE, body |-> NoBody,
      text |-> TxtCause] : s \in statuses}

\* every transport outcome: a 200 reply with any body, the other statuses
\* with a sample of bodies, replies that are not JSON, transport faults
AllOutcomes ==
    Responses({200}, Bodies) \cup Responses(Statuses \ {200}, BodySample)
    \cup Unparsable(Statuses) \cup TransportFaults

\* a sample with one outcome of each kind, for behaviours of several calls
OutcomeSample ==
    Responses({200, 404}, BodySample) \cup Unparsable({200})
    \cup {o \in TransportFaults : o.kind = "Timeout"}

\* a success and a failure, for the threaded behaviours
ThreadOutcomes ==
    Responses({200}, {[k \in {"Global Quote"} |-> QuoteBlock]})
    \cup {o \in TransportFaults : o.kind = "Timeout"}

(***************************************************************************)
(* The state: the wall clock, the fields of one AlphaVantageClient, and    *)
(* for every thread that uses the client its position in _make_request.    *)
(***************************************************************************)
VARIABLES
    clock,              \* time.time()
    api_key,            \* self.api_key
    base_url,           \* self.base_url
    rate_limit_delay,   \* self.rate_limit_delay
    last_request_time,  \* self._last_request_time
    pc,                 \* per thread: where it is in _make_request
    query,              \* per thread: the caller's Query object
    arg,                \* per thread: the Query as it was when passed
    wake,               \* per thread: earliest time time.sleep may return
    sent,               \* per thread: the request given to session.get
    reply,              \* per thread: what the transport did with it
    result,             \* per thread: what _make_request returned or raised
    calls,              \* one record per call, in the order they were made:
                        \* its thread, the time it wrote to
                        \* _last_request_time (-1 before that), its outcome
                        \* and the number of session.get calls it has made
    built,              \* "no" before AlphaVantageClient(...), then "ready"
                        \* or the exception the constructor raised
    ctor,               \* the constructor's arguments and environment
    payload,            \* the data given to format_output
    mode,               \* the output_format given to format_output
    formatted,          \* what format_output returned or raised
    series,             \* what is_time_series_data returned
    cmd                 \* the command of the CLI that is running: the
                        \* endpoint method it calls, where it is, the
                        \* exception it met, what it printed, its exit code

\* the client and its callers
clientVars ==
    <<clock, api_key, base_url, rate_limit_delay, last_request_time, pc,
      query, arg, wake, sent, reply, result, calls>>

\* the construction of the client
ctorVars == <<built, ctor>>

\* the formatter
fmtVars == <<payload, mode, formatted, series>>

\* the command line
cmdVars == <<cmd>>

vars == <<clientVars, ctorVars, fmtVars, cmdVars>>

NoQuery == <<>>

NoRequest == [url |-> "", params |-> <<>>]

NoReply ==
    [kind |-> "none", status |-> 0, json_ok |-> FALSE, body |-> NoBody,
     text |-> <<>>]

NoResult == [kind |-> "none", msg |-> Null, data |-> NoBody]

(***************************************************************************)
(* AlphaVantageClient.__init__.  An argument, an environment variable or   *)
(* a configuration value is None or a value: [t, v] with t "None", "str"   *)
(* or "float"; a configuration text float() cannot parse has t "bad".      *)
(***************************************************************************)
NoneStr == [t |-> "None", v |-> ""]

SomeStr(s) == [t |-> "str", v |-> s]

NoneNum == [t |-> "None", v |-> 0]

SomeNum(n) == [t |-> "float", v |-> n]

BadNum == [t |-> "bad", v |-> 0]

\* Python truth of such a value: None, "" and 0.0 are false
Truthy(x) ==
    CASE x.t = "str" -> x.v # ""
      [] x.t = "float" -> x.v # 0
      [] OTHER -> FALSE

\* Python `a or b`
PyOr(a, b) == IF Truthy(a) THEN a ELSE b

\* DEFAULT base_url of Config
DefaultBaseUrl == "https://www.alphavantage.co/query"

\* DEFAULT rate_limit_delay of Config, in seconds
DefaultDelay == 12

\* ResolveApiKey looking at the environment before the argument
ResolveApiKeyEnvFirst(param, env, cfg) == PyOr(PyOr(env, param), cfg)

\* api_key or os.getenv("ALPHA_VANTAGE_API_KEY") or config.get("api_key")
ResolveApiKey(param, env, cfg) == PyOr(PyOr(param, env), cfg)

\* base_url or os.getenv("ALPHA_VANTAGE_BASE_URL") or config.get("base_url")
ResolveBaseUrl(param, env, cfg) == PyOr(PyOr(param, env), cfg)

\* rate_limit_delay or float(config.get("rate_limit_delay", 12.0)):
\* float() is reached only when the argument is false, and may raise
ResolveDelay(param, cfg) ==
    IF Truthy(param) THEN param
    ELSE IF cfg.t = "bad" THEN [t |-> "ValueError", v |-> 0]
    ELSE cfg

\* the arguments and environment of AlphaVantageClient(api_key="demo",
\* rate_limit_delay=delay) with no environment variable and no config file
DemoCtor(delay) ==
    [api_key |-> SomeStr("demo"), env_key |-> NoneStr, cfg_key |-> NoneStr,
     base_url |-> NoneStr, env_url |-> NoneStr,
     cfg_url |-> SomeStr(DefaultBaseUrl),
     delay |-> SomeNum(delay), cfg_delay |-> SomeNum(DefaultDelay)]

\* the arguments and environments a client is constructed with
CtorInputs ==
    [api_key : {NoneStr, SomeStr(""), SomeStr("param_key")},
     env_key : {NoneStr, SomeStr(""), SomeStr("env_key")},
     cfg_key : {NoneStr, SomeStr(""), SomeStr("file_key")},
     base_url : {NoneStr, SomeStr("https://custom.url")},
     env_url : {NoneStr},
     cfg_url : {SomeStr(DefaultBaseUrl)},
     delay : {NoneNum, SomeNum(0), SomeNum(1)},
     cfg_delay : {SomeNum(DefaultDelay), SomeNum(2), BadNum}]

(***************************************************************************)
(* utils.py: format_output and the CSV conversion.  A payload is a JSON    *)
(* value [t, s, d]: a text has t "str" and its characters in s, a dict has *)
(* t "dict" and its items, in insertion order, in d as [k, v] records.     *)
(***************************************************************************)
JsonMode ==
    <<"j", "s", "o", "n">>

CsvMode ==
    <<"c", "s", "v">>

UnsupportedPrefix ==
    <<"U", "n", "s", "u", "p", "p", "o", "r", "t", "e", "d", " ", "o", "u",
      "t", "p", "u", "t", " ", "f", "o", "r", "m", "a", "t", ":", " ">>

CsvFailedPrefix ==
    <<"F", "a", "i", "l", "e", "d", " ", "t", "o", " ", "c", "o", "n", "v",
      "e", "r", "t", " ", "d", "a", "t", "a", " ", "t", "o", " ", "C", "S",
      "V", ":", " ">>

IndexLabel ==
    <<"i", "n", "d", "e", "x">>

DateLabel ==
    <<"d", "a", "t", "e">>

LevelLabel ==
    <<"l", "e", "v", "e", "l", "_", "0">>

CannotInsertText ==
    <<"c", "a", "n", "n", "o", "t", " ", "i", "n", "s", "e", "r", "t", " ",
      "l", "e", "v", "e", "l", "_", "0", ",", " ", "a", "l", "r", "e", "a",
      "d", "y", " ", "e", "x", "i", "s", "t", "s">>

NotUniqueText ==
    <<"T", "h", "e", " ", "c", "o", "l", "u", "m", "n", " ", "l", "a", "b",
      "e", "l", " ", "'", "d", "a", "t", "e", "'", " ", "i", "s", " ", "n",
      "o", "t", " ", "u", "n", "i", "q", "u", "e", ".">>

Scalar(s) == [t |-> "str", s |-> s, d |-> <<>>]

Mapping(items) == [t |-> "dict", s |-> <<>>, d |-> items]

Item(key, value) == [k |-> key, v |-> value]

\* no payload
NoData == [t |-> "none", s |-> <<>>, d |-> <<>>]

\* isinstance(value, dict)
IsDict(value) == value.t = "dict"

\* PyTruth taking every payload for a non-empty one
PyTruthAlways(data) == data.t # "none"

\* Python truth of a payload: an empty dict and an empty text are false
PyTruth(data) == IF IsDict(data) THEN data.d # <<>> ELSE data.s # <<>>

\* "Minimum date length" of is_time_series_data
MinDateLen == 8

\* LooksLikeDate asking for more than the minimum date length
LooksLikeDateLonger(key) ==
    \/ StrContains(<<"-">>, key)
    \/ StrContains(<<"/">>, key)
    \/ StrContains(<<":">>, key)
    \/ Len(key) > MinDateLen

\* the key test of is_time_series_data
LooksLikeDate(key) ==
    \/ StrContains(<<"-">>, key)
    \/ StrContains(<<"/">>, key)
    \/ StrContains(<<":">>, key)
    \/ Len(key) >= MinDateLen

\* the loop of is_time_series_data over data.items(), which returns False
\* at the first item that fails and True when it runs out of items
RECURSIVE TimeSeriesLoop(_)
TimeSeriesLoop(items) ==
    IF items = <<>> THEN TRUE
    ELSE LET key == Head(items).k
             value == Head(items).v
         IN  IF IsDict(value)
             THEN IF LooksLikeDate(key)
                  THEN TimeSeriesLoop(Tail(items))
                  ELSE FALSE
             ELSE FALSE

IsTimeSeriesData(data) ==
    IF ~IsDict(data) THEN FALSE ELSE TimeSeriesLoop(data.d)

\* the loop of is_flat_dict over data.values()
RECURSIVE FlatLoop(_)
FlatLoop(items) ==
    IF items = <<>> THEN TRUE
    ELSE IF IsDict(Head(items).v) THEN FALSE
    ELSE FlatLoop(Tail(items))

\* IsFlatDict looking at the first value only
IsFlatDictFirstValue(data) ==
    IF ~IsDict(data) THEN FALSE
    ELSE data.d = <<>> \/ ~IsDict(data.d[1].v)

IsFlatDict(data) == IF ~IsDict(data) THEN FALSE ELSE FlatLoop(data.d)

(***************************************************************************)
(* pandas.  A DataFrame is [columns, rows]: the column labels and, per     *)
(* row, one cell per column; a cell is [na, s], na for a missing value.    *)
(***************************************************************************)
Cell(s) == [na |-> FALSE, s |-> s]

NaN == [na |-> TRUE, s |-> <<>>]

\* the characters of the texts of the model in code point order
AsciiOrder ==
    <<" ", "'", "(", ")", ",", "-", ".", "/", "0", "1", "2", "3", "4", "5",
      "6", "7", "8", "9", ":", "A", "B", "C", "D", "E", "F", "G", "H", "I",
      "J", "K", "L", "M", "N", "O", "P", "Q", "R", "S", "T", "U", "V", "W",
      "X", "Y", "Z", "_", "a", "b", "c", "d", "e", "f", "g", "h", "i", "j",
      "k", "l", "m", "n", "o", "p", "q", "r", "s", "t", "u", "v", "w", "x",
      "y", "z", "{", "}">>

CharCode(c) == CHOOSE i \in 1..Len(AsciiOrder) : AsciiOrder[i] = c

\* a < b for two Python str
RECURSIVE StrLess(_, _)
StrLess(a, b) ==
    IF b = <<>> THEN FALSE
    ELSE IF a = <<>> THEN TRUE
    ELSE IF Head(a) = Head(b) THEN StrLess(Tail(a), Tail(b))
    ELSE CharCode(Head(a)) < CharCode(Head(b))

RECURSIVE Join(_, _)
Join(parts, sep) ==
    IF parts = <<>> THEN <<>>
    ELSE IF Len(parts) = 1 THEN parts[1]
    ELSE parts[1] \o sep \o Join(Tail(parts), sep)

RECURSIVE Concat(_)
Concat(parts) == IF parts = <<>> THEN <<>> ELSE Head(parts) \o Concat(Tail(parts))

\* the sequence without the later duplicates of its elements
RECURSIVE KeepFirst(_)
KeepFirst(s) ==
    IF s = <<>> THEN <<>>
    ELSE LET front == KeepFirst(SubSeq(s, 1, Len(s) - 1))
             last == s[Len(s)]
         IN  IF \E i \in 1..Len(front) : front[i] = last
             THEN front
             ELSE Append(front, last)

\* str(value) of a cell value: a text is itself, a dict is its repr
ReprText(s) == <<"'">> \o s \o <<"'">>

ReprDict(items) ==
    <<"{">>
    \o Join([i \in 1..Len(items) |->
                ReprText(items[i].k) \o <<":", " ">> \o ReprText(items[i].v.s)],
            <<",", " ">>)
    \o <<"}">>

CellOf(value) ==
    IF IsDict(value) THEN Cell(ReprDict(value.d)) ELSE Cell(value.s)

\* csv.writer with QUOTE_MINIMAL: a field holding the delimiter, the quote
\* character or a line break is quoted, its quotes doubled
RECURSIVE DoubleQuotes(_)
DoubleQuotes(s) ==
    IF s = <<>> THEN <<>>
    ELSE (IF Head(s) = "\"" THEN <<"\"", "\"">> ELSE <<Head(s)>>)
         \o DoubleQuotes(Tail(s))

CsvField(s) ==
    IF \E i \in 1..Len(s) : s[i] \in {",", "\"", "\n", "\r"}
    THEN <<"\"">> \o DoubleQuotes(s) \o <<"\"">>
    ELSE s

\* one line of the file; a row of one empty field is written as ""
CsvRow(fields) ==
    IF Len(fields) = 1 /\ fields[1] = <<>>
    THEN <<"\"", "\"", "\n">>
    ELSE Join([i \in 1..Len(fields) |-> CsvField(fields[i])], <<",">>)
         \o <<"\n">>

\* DataFrame.to_csv(index=False): the header, then one line per row with a
\* missing value written as the empty text
ToCsv(df) ==
    CsvRow(df.columns)
    \o Concat([r \in 1..Len(df.rows) |->
                  CsvRow([c \in 1..Len(df.rows[r]) |->
                             IF df.rows[r][c].na THEN <<>>
                             ELSE df.rows[r][c].s])])

\* pd.DataFrame([data]): one row, one column per key; a payload that is not
\* a dict gives the single column 0
SingleRow(data) ==
    IF IsDict(data)
    THEN [columns |-> [i \in 1..Len(data.d) |-> data.d[i].k],
          rows |-> << [i \in 1..Len(data.d) |-> CellOf(data.d[i].v)] >>]
    ELSE [columns |-> << <<"0">> >>, rows |-> << <<Cell(data.s)>> >>]

\* the value of column col in the record items, NaN when it has none
Lookup(items, col) ==
    IF \E i \in 1..Len(items) : items[i].k = col
    THEN CellOf(items[CHOOSE i \in 1..Len(items) : items[i].k = col].v)
    ELSE NaN

\* pd.DataFrame.from_dict(data, orient='index') of a dict of dicts: the
\* columns are the inner keys in order of appearance, the index holds the
\* outer keys that carry at least one value
FromDictIndex(data) ==
    LET outer == data.d
        columns ==
            KeepFirst(Concat([i \in 1..Len(outer) |->
                [j \in 1..Len(outer[i].v.d) |-> outer[i].v.d[j].k]]))
        holders(col) ==
            SelectSeq([i \in 1..Len(outer) |-> outer[i]],
                      LAMBDA it : \E j \in 1..Len(it.v.d) : it.v.d[j].k = col)
        index ==
            KeepFirst(Concat([c \in 1..Len(columns) |->
                [i \in 1..Len(holders(columns[c])) |->
                    holders(columns[c])[i].k]]))
        record(key) == outer[CHOOSE i \in 1..Len(outer) : outer[i].k = key].v.d
    IN  [columns |-> columns,
         index |-> index,
         rows |-> [r \in 1..Len(index) |->
                      [c \in 1..Len(columns) |->
                          Lookup(record(index[r]), columns[c])]]]

\* sort_values(column c, ascending=False): by the text of the cell, the
\* missing values last
RECURSIVE SortDescending(_, _)
SortDescending(rows, c) ==
    IF rows = <<>> THEN <<>>
    ELSE LET notAfter(x, y) ==
                 IF x[c].na THEN y[c].na
                 ELSE y[c].na \/ ~StrLess(x[c].s, y[c].s)
             top == CHOOSE i \in 1..Len(rows) :
                        \A j \in 1..Len(rows) : notAfter(rows[i], rows[j])
         IN  <<rows[top]>>
             \o SortDescending(SubSeq(rows, 1, top - 1)
                               \o SubSeq(rows, top + 1, Len(rows)), c)

\* what format_output hands back: a value (kind "ok") or an exception
FormatOk(branch, data, text) ==
    [kind |-> "ok", branch |-> branch, data |-> data, text |-> text,
     msg |-> <<>>]

FormatRaise(kind, msg) ==
    [kind |-> kind, branch |-> "none", data |-> NoData, text |-> <<>>,
     msg |-> msg]

\* time_series_to_csv: reset_index puts the index in a new first column,
\* named index, or level_0 when a column is named index already; the rename
\* turns every label index into date; sort_values fails when the label
\* date is not unique
TimeSeriesToCsv(data) ==
    LET df == FromDictIndex(data)
        has(label) == \E c \in 1..Len(df.columns) : df.columns[c] = label
        reset ==
            <<IF has(IndexLabel) THEN LevelLabel ELSE IndexLabel>>
            \o df.columns
        renamed ==
            [c \in 1..Len(reset) |->
                IF reset[c] = IndexLabel THEN DateLabel ELSE reset[c]]
        dates == {c \in 1..Len(renamed) : renamed[c] = DateLabel}
        rows ==
            [r \in 1..Len(df.index) |-> <<Cell(df.index[r])>> \o df.rows[r]]
    IN  IF has(IndexLabel) /\ has(LevelLabel)
        THEN FormatRaise("ValueError", CannotInsertText)
        ELSE IF Cardinality(dates) # 1
        THEN FormatRaise("ValueError", NotUniqueText)
        ELSE FormatOk("time_series", NoData,
                 ToCsv([columns |-> renamed,
                        rows |-> SortDescending(rows,
                                     CHOOSE c \in dates : TRUE)]))

FlatDictToCsv(data) == FormatOk("flat", NoData, ToCsv(SingleRow(data)))

\* ConvertToCsv without its except clause
ConvertToCsvUncaught(data) ==
    IF ~PyTruth(data) THEN FormatOk("empty", NoData, <<>>)
    ELSE IF IsTimeSeriesData(data) THEN TimeSeriesToCsv(data)
    ELSE IF IsFlatDict(data) THEN FlatDictToCsv(data)
    ELSE FormatOk("mixed", NoData, ToCsv(SingleRow(data)))

\* ConvertToCsv without the empty check
ConvertToCsvClassifyFirst(data) ==
    LET r == IF IsTimeSeriesData(data) THEN TimeSeriesToCsv(data)
             ELSE IF IsFlatDict(data) THEN FlatDictToCsv(data)
             ELSE FormatOk("mixed", NoData, ToCsv(SingleRow(data)))
    IN  IF r.kind = "ok" THEN r
        ELSE FormatRaise("DataFormatError", CsvFailedPrefix \o r.msg)

\* convert_to_csv: the empty check comes before any classification
ConvertToCsv(data) ==
    LET r == IF ~PyTruth(data) THEN FormatOk("empty", NoData, <<>>)
             ELSE IF IsTimeSeriesData(data) THEN TimeSeriesToCsv(data)
             ELSE IF IsFlatDict(data) THEN FlatDictToCsv(data)
             ELSE FormatOk("mixed", NoData, ToCsv(SingleRow(data)))
    IN  IF r.kind = "ok" THEN r
        ELSE FormatRaise("DataFormatError", CsvFailedPrefix \o r.msg)

(***************************************************************************)
(* clean_column_names, applied to one column label.  No function of the    *)
(* package calls it.                                                       *)
(***************************************************************************)
Whitespace == {" ", "\t", "\n", "\r"}

\* the text without its leading whitespace
RECURSIVE DropWhitespace(_)
DropWhitespace(s) ==
    IF s # <<>> /\ Head(s) \in Whitespace THEN DropWhitespace(Tail(s)) ELSE s

\* the text without its leading digits
RECURSIVE DropDigits(_)
DropDigits(s) ==
    IF s # <<>> /\ (\E i \in 1..Len(Digits) : Digits[i] = Head(s))
    THEN DropDigits(Tail(s))
    ELSE s

\* str.replace(r'^\d+\.\s*', '', regex=True)
StripOrdinal(s) ==
    LET rest == DropDigits(s)
    IN  IF Len(rest) < Len(s) /\ rest # <<>> /\ Head(rest) = "."
        THEN DropWhitespace(Tail(rest))
        ELSE s

\* str.replace(r'\s+', '_', regex=True)
RECURSIVE Underscore(_)
Underscore(s) ==
    IF s = <<>> THEN <<>>
    ELSE IF Head(s) \in Whitespace
    THEN <<"_">> \o Underscore(DropWhitespace(s))
    ELSE <<Head(s)>> \o Underscore(Tail(s))

\* the three replacements of clean_column_names in their order
CleanColumnName(name) == StrLower(Underscore(StripOrdinal(name)))

\* FormatOutput converting to CSV under every mode but json
FormatOutputCsvDefault(data, output_format) ==
    IF StrLower(output_format) = JsonMode THEN FormatOk("json", data, <<>>)
    ELSE ConvertToCsv(data)

\* FormatOutput comparing the mode as it is written
FormatOutputCaseSensitive(data, output_format) ==
    IF output_format = JsonMode THEN FormatOk("json", data, <<>>)
    ELSE IF output_format = CsvMode THEN ConvertToCsv(data)
    ELSE FormatRaise("DataFormatError", UnsupportedPrefix \o output_format)

\* format_output
FormatOutput(data, output_format) ==
    IF StrLower(output_format) = JsonMode THEN FormatOk("json", data, <<>>)
    ELSE IF StrLower(output_format) = CsvMode THEN ConvertToCsv(data)
    ELSE FormatRaise("DataFormatError", UnsupportedPrefix \o output_format)

\* the formatter has not been called
NoFormatted ==
    [kind |-> "none", branch |-> "none", data |-> NoData, text |-> <<>>,
     msg |-> <<>>]

NoSeries == [called |-> FALSE, val |-> FALSE]

FormatterIdle ==
    /\ payload = NoData
    /\ mode = <<>>
    /\ formatted = NoFormatted
    /\ series = NoSeries

\* no exception
NoFailure == [kind |-> "none", msg |-> <<>>]

\* nothing printed
NoPrint == [stream |-> "none", text |-> <<>>, data |-> NoData]

\* no command is running: the client is used as a library
NoCommand ==
    [pc |-> "none", adapter |-> "none", indicator |-> <<>>, order |-> <<>>,
     failure |-> NoFailure, printed |-> NoPrint, exit |-> -1]

\* AlphaVantageClient(...): the fields are assigned in the order of
\* __init__, which ends at the first exception
Construct ==
    /\ built = "no"
    /\ LET key == ResolveApiKey(ctor.api_key, ctor.env_key, ctor.cfg_key)
           url == ResolveBaseUrl(ctor.base_url, ctor.env_url, ctor.cfg_url)
           delay == ResolveDelay(ctor.delay, ctor.cfg_delay)
       IN  IF ~Truthy(key)
           THEN /\ built' = "APIKeyError"
                /\ UNCHANGED <<api_key, base_url, rate_limit_delay>>
           ELSE IF delay.t = "ValueError"
           THEN /\ built' = "ValueError"
                /\ UNCHANGED <<api_key, base_url, rate_limit_delay>>
           ELSE /\ built' = "ready"
                /\ api_key' = key.v
                /\ base_url' = url.v
                /\ rate_limit_delay' = delay.v
    /\ last_request_time' = 0
    /\ UNCHANGED <<clock, pc, query, arg, wake, sent, reply, result, calls,
                   ctor, fmtVars, cmdVars>>

\* the state after AlphaVantageClient(...) for the given threads
InitClient(threads) ==
    /\ clock = 0
    /\ api_key = "demo"
    /\ base_url = DefaultBaseUrl
    /\ rate_limit_delay \in 1..MaxDelay
    /\ last_request_time = 0
    /\ pc = [t \in threads |-> "idle"]
    /\ query = [t \in threads |-> NoQuery]
    /\ arg = [t \in threads |-> NoQuery]
    /\ wake = [t \in threads |-> 0]
    /\ sent = [t \in threads |-> NoRequest]
    /\ reply = [t \in threads |-> NoReply]
    /\ result = [t \in threads |-> NoResult]
    /\ calls = <<>>
    /\ built = "ready"
    /\ ctor = DemoCtor(rate_limit_delay)
    /\ FormatterIdle
    /\ cmd = NoCommand

\* index in calls of thread t's latest call
CallOf(t) == CHOOSE i \in 1..Len(calls) :
    /\ calls[i].thread = t
    /\ \A j \in (i + 1)..Len(calls) : calls[j].thread # t

\* time passes, up to the horizon of the behaviour
Tick(horizon) ==
    /\ UNCHANGED <<ctorVars, fmtVars, cmdVars>>
    /\ clock < horizon
    /\ clock' = clock + 1
    /\ UNCHANGED <<api_key, base_url, rate_limit_delay, last_request_time,
                   pc, query, arg, wake, sent, reply, result, calls>>

\* a caller builds the Query q and calls _make_request(q)
Call(t, q, budget) ==
    /\ UNCHANGED <<ctorVars, fmtVars, cmdVars>>
    /\ pc[t] = "idle"
    /\ Len(calls) < budget
    /\ pc' = [pc EXCEPT ![t] = "rate_limit"]
    /\ query' = [query EXCEPT ![t] = q]
    /\ arg' = [arg EXCEPT ![t] = q]
    /\ calls' = Append(calls, [thread |-> t, stamp |-> -1,
                               outcome |-> "pending", requests |-> 0])
    /\ UNCHANGED <<clock, api_key, base_url, rate_limit_delay,
                   last_request_time, wake, sent, reply, result>>

\* SleepTime sleeping the time elapsed instead of the time remaining
SleepTimeElapsed(now, last, delay) ==
    IF now - last < delay THEN now - last ELSE 0

\* _rate_limit up to the call of time.sleep: the wait still owed, if any
SleepTime(now, last, delay) ==
    IF now - last < delay THEN delay - (now - last) ELSE 0

RateLimitCheck(t) ==
    /\ UNCHANGED <<ctorVars, fmtVars, cmdVars>>
    /\ pc[t] = "rate_limit"
    /\ LET sleep_time == SleepTime(clock, last_request_time, rate_limit_delay)
       IN  IF sleep_time > 0
           THEN /\ pc' = [pc EXCEPT ![t] = "sleep"]
                /\ wake' = [wake EXCEPT ![t] = clock + sleep_time]
           ELSE /\ pc' = [pc EXCEPT ![t] = "stamp"]
                /\ UNCHANGED wake
    /\ UNCHANGED <<clock, api_key, base_url, rate_limit_delay,
                   last_request_time, query, arg, sent, reply, result, calls>>

\* time.sleep returns, no earlier than asked
SleepReturns(t) ==
    /\ UNCHANGED <<ctorVars, fmtVars, cmdVars>>
    /\ pc[t] = "sleep"
    /\ clock >= wake[t]
    /\ pc' = [pc EXCEPT ![t] = "stamp"]
    /\ UNCHANGED <<clock, api_key, base_url, rate_limit_delay,
                   last_request_time, query, arg, wake, sent, reply, result,
                   calls>>

\* RateLimitStamp without the write to _last_request_time
RateLimitStampSkipped(t) ==
    /\ UNCHANGED <<ctorVars, fmtVars, cmdVars>>
    /\ pc[t] = "stamp"
    /\ calls' = [calls EXCEPT ![CallOf(t)].stamp = clock]
    /\ pc' = [pc EXCEPT ![t] = "dispatch"]
    /\ UNCHANGED <<clock, api_key, base_url, rate_limit_delay,
                   last_request_time, query, arg, wake, sent, reply, result>>

\* self._last_request_time = time.time()
RateLimitStamp(t) ==
    /\ UNCHANGED <<ctorVars, fmtVars, cmdVars>>
    /\ pc[t] = "stamp"
    /\ last_request_time' = clock
    /\ calls' = [calls EXCEPT ![CallOf(t)].stamp = clock]
    /\ pc' = [pc EXCEPT ![t] = "dispatch"]
    /\ UNCHANGED <<clock, api_key, base_url, rate_limit_delay, query, arg,
                   wake, sent, reply, result>>

\* Dispatch dropping the credential of the client when the call fails
DispatchForgetsKey(t, out) ==
    /\ UNCHANGED <<ctorVars, fmtVars, cmdVars>>
    /\ pc[t] = "dispatch"
    /\ LET p == AddApiKey(query[t], api_key) IN
        /\ query' = [query EXCEPT ![t] = p.caller]
        /\ sent' = [sent EXCEPT ![t] = [url |-> base_url, params |-> p.sent]]
    /\ reply' = [reply EXCEPT ![t] = out]
    /\ result' = [result EXCEPT ![t] = MakeRequestOutcome(out)]
    /\ calls' = [calls EXCEPT
                    ![CallOf(t)].outcome = MakeRequestOutcome(out).kind,
                    ![CallOf(t)].requests = @ + 1]
    /\ pc' = [pc EXCEPT ![t] = "done"]
    /\ api_key' = IF MakeRequestOutcome(out).kind = "ok" THEN api_key ELSE ""
    /\ UNCHANGED <<clock, base_url, rate_limit_delay, last_request_time, arg,
                   wake>>

\* the rest of _make_request: the credential is added to a copy of the
\* Query, the request is dispatched and its outcome classified
Dispatch(t, out) ==
    /\ UNCHANGED <<ctorVars, fmtVars, cmdVars>>
    /\ pc[t] = "dispatch"
    /\ LET p == AddApiKey(query[t], api_key) IN
        /\ query' = [query EXCEPT ![t] = p.caller]
        /\ sent' = [sent EXCEPT ![t] = [url |-> base_url, params |-> p.sent]]
    /\ reply' = [reply EXCEPT ![t] = out]
    /\ result' = [result EXCEPT ![t] = MakeRequestOutcome(out)]
    /\ calls' = [calls EXCEPT
                    ![CallOf(t)].outcome = MakeRequestOutcome(out).kind,
                    ![CallOf(t)].requests = @ + 1]
    /\ pc' = [pc EXCEPT ![t] = "done"]
    /\ UNCHANGED <<clock, api_key, base_url, rate_limit_delay,
                   last_request_time, arg, wake>>

\* the caller has taken the result
Return(t) ==
    /\ UNCHANGED <<ctorVars, fmtVars, cmdVars>>
    /\ pc[t] = "done"
    /\ pc' = [pc EXCEPT ![t] = "idle"]
    /\ query' = [query EXCEPT ![t] = NoQuery]
    /\ arg' = [arg EXCEPT ![t] = NoQuery]
    /\ sent' = [sent EXCEPT ![t] = NoRequest]
    /\ reply' = [reply EXCEPT ![t] = NoReply]
    /\ result' = [result EXCEPT ![t] = NoResult]
    /\ UNCHANGED <<clock, api_key, base_url, rate_limit_delay,
                   last_request_time, wake, calls>>

(***************************************************************************)
(* Spec: one call of _make_request, with every transport outcome.          *)
(***************************************************************************)
Init == InitClient({1})

Next ==
    \/ Tick(MaxDelay)
    \/ Call(1, QuoteQuery, 1)
    \/ RateLimitCheck(1)
    \/ SleepReturns(1)
    \/ RateLimitStamp(1)
    \/ \E out \in AllOutcomes : Dispatch(1, out)
    \/ Return(1)

Spec == Init /\ [][Next]_vars

(***************************************************************************)
(* SpecSeq: one thread making MaxCalls calls one after the other.          *)
(***************************************************************************)
NextSeq ==
    \/ Tick(MaxClock)
    \/ \E q \in Queries : Call(1, q, MaxCalls)
    \/ RateLimitCheck(1)
    \/ SleepReturns(1)
    \/ RateLimitStamp(1)
    \/ \E out \in OutcomeSample : Dispatch(1, out)
    \/ Return(1)

SpecSeq == Init /\ [][NextSeq]_vars

(***************************************************************************)
(* SpecThreads: NThreads threads sharing the client.  CPython runs one     *)
(* bytecode at a time, so the steps of _rate_limit interleave but each     *)
(* read and each write of _last_request_time is atomic.                    *)
(***************************************************************************)
InitThreads == InitClient(1..NThreads)

NextThreads ==
    \/ Tick(MaxClock)
    \/ \E t \in 1..NThreads :
        \/ Call(t, QuoteQuery, NThreads)
        \/ RateLimitCheck(t)
        \/ SleepReturns(t)
        \/ RateLimitStamp(t)
        \/ \E out \in ThreadOutcomes : Dispatch(t, out)
        \/ Return(t)

SpecThreads == InitThreads /\ [][NextThreads]_vars


(***************************************************************************)
(* SpecNew: a client is constructed from every combination of arguments    *)
(* and environment and, when the constructor returns, used for one call.   *)
(***************************************************************************)
InitNew ==
    /\ clock = 0
    /\ api_key = ""
    /\ base_url = ""
    /\ rate_limit_delay = 0
    /\ last_request_time = 0
    /\ pc = [t \in {1} |-> "idle"]
    /\ query = [t \in {1} |-> NoQuery]
    /\ arg = [t \in {1} |-> NoQuery]
    /\ wake = [t \in {1} |-> 0]
    /\ sent = [t \in {1} |-> NoRequest]
    /\ reply = [t \in {1} |-> NoReply]
    /\ result = [t \in {1} |-> NoResult]
    /\ calls = <<>>
    /\ built = "no"
    /\ ctor \in CtorInputs
    /\ FormatterIdle
    /\ cmd = NoCommand

\* the methods of the client exist once the constructor has returned
NextNew ==
    \/ Construct
    \/ /\ built = "ready"
       /\ \/ Tick(DefaultDelay)
          \/ Call(1, QuoteQuery, 1)
          \/ RateLimitCheck(1)
          \/ SleepReturns(1)
          \/ RateLimitStamp(1)
          \/ \E out \in ThreadOutcomes : Dispatch(1, out)
          \/ Return(1)

SpecNew == InitNew /\ [][NextNew]_vars


(***************************************************************************)
(* SpecFormat: format_output and is_time_series_data applied to payloads   *)
(* of at most MaxItems items.                                              *)
(***************************************************************************)
MaxItems == 2

DayOne ==
    <<"2", "0", "2", "3", "-", "0", "1", "-", "0", "1">>

DayTwo ==
    <<"2", "0", "2", "3", "-", "0", "1", "-", "0", "2">>

SlashKey ==
    <<"1", "/", "2">>

ClockKey ==
    <<"9", ":", "3", "0">>

CompactDay ==
    <<"2", "0", "2", "3", "0", "1", "0", "1">>

OpenLabel ==
    <<"1", ".", " ", "o", "p", "e", "n">>

CloseLabel ==
    <<"4", ".", " ", "c", "l", "o", "s", "e">>

TxtIBM ==
    <<"I", "B", "M">>

UpperJson ==
    <<"J", "S", "O", "N">>

UpperCsv ==
    <<"C", "S", "V">>

XmlMode ==
    <<"x", "m", "l">>

\* the keys of a payload: one per separator, one of the minimum date length
\* without separator, one shorter than that without separator
PayloadKeys == {DayOne, DayTwo, SlashKey, ClockKey, CompactDay, OpenLabel}

PayloadValues ==
    {Scalar(TxtIBM),
     Mapping(<<>>),
     Mapping(<<Item(OpenLabel, Scalar(<<"1">>))>>),
     Mapping(<<Item(CloseLabel, Scalar(<<"3">>)),
               Item(OpenLabel, Scalar(<<"2">>))>>)}

\* the dicts of n items with distinct keys, in every insertion order
RECURSIVE DictsOf(_)
DictsOf(n) ==
    IF n = 0 THEN {<<>>}
    ELSE {Append(items, Item(key, value)) :
              items \in DictsOf(n - 1),
              key \in PayloadKeys,
              value \in PayloadValues}

DistinctKeys(items) ==
    \A i, j \in 1..Len(items) : items[i].k = items[j].k => i = j

\* inner records that carry the labels reset_index and rename introduce
ReservedLabelPayloads ==
    {Mapping(<<Item(DayOne, Mapping(<<Item(label, Scalar(<<"1">>))>>))>>) :
         label \in {IndexLabel, DateLabel}}

Payloads ==
    {Mapping(items) :
         items \in {d \in UNION {DictsOf(n) : n \in 0..MaxItems} :
                        DistinctKeys(d)}}
    \cup ReservedLabelPayloads
    \cup {Scalar(TxtIBM), Scalar(<<>>)}

Modes == {JsonMode, UpperJson, CsvMode, UpperCsv, XmlMode, <<>>}

InitFormat ==
    /\ clock = 0
    /\ api_key = "demo"
    /\ base_url = DefaultBaseUrl
    /\ rate_limit_delay = 1
    /\ last_request_time = 0
    /\ pc = [t \in {1} |-> "idle"]
    /\ query = [t \in {1} |-> NoQuery]
    /\ arg = [t \in {1} |-> NoQuery]
    /\ wake = [t \in {1} |-> 0]
    /\ sent = [t \in {1} |-> NoRequest]
    /\ reply = [t \in {1} |-> NoReply]
    /\ result = [t \in {1} |-> NoResult]
    /\ calls = <<>>
    /\ built = "ready"
    /\ ctor = DemoCtor(1)
    /\ payload \in Payloads
    /\ mode \in Modes
    /\ formatted = NoFormatted
    /\ series = NoSeries
    /\ cmd = NoCommand

\* format_output(payload, mode)
Format ==
    /\ formatted = NoFormatted
    /\ formatted' = FormatOutput(payload, mode)
    /\ UNCHANGED <<clientVars, ctorVars, payload, mode, series, cmdVars>>

\* is_time_series_data(payload)
Classify ==
    /\ ~series.called
    /\ series' = [called |-> TRUE, val |-> IsTimeSeriesData(payload)]
    /\ UNCHANGED <<clientVars, ctorVars, payload, mode, formatted,
                   cmdVars>>

NextFormat == Format \/ Classify

SpecFormat == InitFormat /\ [][NextFormat]_vars

(***************************************************************************)
(* The endpoint adapters and the CLI data commands.  A command creates the *)
(* client, calls one adapter, which makes one request, picks a block of    *)
(* the reply and formats it, then echoes the result and exits.             *)
(***************************************************************************)
ErrorPrefix ==
    <<"E", "r", "r", "o", "r", ":", " ">>

ApiKeyRequiredText ==
    <<"A", "l", "p", "h", "a", " ", "V", "a", "n", "t", "a", "g", "e", " ",
      "A", "P", "I", " ", "k", "e", "y", " ", "i", "s", " ", "r", "e", "q",
      "u", "i", "r", "e", "d", ".", " ", "S", "e", "t", " ", "A", "L", "P",
      "H", "A", "_", "V", "A", "N", "T", "A", "G", "E", "_", "A", "P", "I",
      "_", "K", "E", "Y", " ", "e", "n", "v", "i", "r", "o", "n", "m", "e",
      "n", "t", " ", "v", "a", "r", "i", "a", "b", "l", "e", ",", " ", "p",
      "r", "o", "v", "i", "d", "e", " ", "a", "p", "i", "_", "k", "e", "y",
      " ", "p", "a", "r", "a", "m", "e", "t", "e", "r", ",", " ", "o", "r",
      " ", "a", "d", "d", " ", "t", "o", " ", "c", "o", "n", "f", "i", "g",
      " ", "f", "i", "l", "e", ".">>

ApiKeyHintText ==
    <<"\n", "T", "o", " ", "g", "e", "t", " ", "a", "n", " ", "A", "P", "I",
      " ", "k", "e", "y", ",", " ", "v", "i", "s", "i", "t", ":", " ", "h",
      "t", "t", "p", "s", ":", "/", "/", "w", "w", "w", ".", "a", "l", "p",
      "h", "a", "v", "a", "n", "t", "a", "g", "e", ".", "c", "o", "/", "s",
      "u", "p", "p", "o", "r", "t", "/", "#", "a", "p", "i", "-", "k", "e",
      "y">>

GlobalQuoteText ==
    <<"G", "l", "o", "b", "a", "l", " ", "Q", "u", "o", "t", "e">>

ExchangeRateText ==
    <<"R", "e", "a", "l", "t", "i", "m", "e", " ", "C", "u", "r", "r", "e",
      "n", "c", "y", " ", "E", "x", "c", "h", "a", "n", "g", "e", " ", "R",
      "a", "t", "e">>

TimeSeriesPattern ==
    <<"T", "i", "m", "e", " ", "S", "e", "r", "i", "e", "s">>

ForexSeriesPattern ==
    <<"T", "i", "m", "e", " ", "S", "e", "r", "i", "e", "s", " ", "F", "X">>

TechnicalPattern ==
    <<"T", "e", "c", "h", "n", "i", "c", "a", "l", " ", "A", "n", "a", "l",
      "y", "s", "i", "s">>

MetaDataText ==
    <<"M", "e", "t", "a", " ", "D", "a", "t", "a">>

DailySeriesText ==
    <<"T", "i", "m", "e", " ", "S", "e", "r", "i", "e", "s", " ", "(", "D",
      "a", "i", "l", "y", ")">>

FxDailySeriesText ==
    <<"T", "i", "m", "e", " ", "S", "e", "r", "i", "e", "s", " ", "F", "X",
      " ", "(", "D", "a", "i", "l", "y", ")">>

SmaAnalysisText ==
    <<"T", "e", "c", "h", "n", "i", "c", "a", "l", " ", "A", "n", "a", "l",
      "y", "s", "i", "s", ":", " ", "S", "M", "A">>

NoQuoteText ==
    <<"N", "o", " ", "q", "u", "o", "t", "e", " ", "d", "a", "t", "a", " ",
      "f", "o", "u", "n", "d", " ", "i", "n", " ", "r", "e", "s", "p", "o",
      "n", "s", "e">>

NoExchangeRateText ==
    <<"N", "o", " ", "e", "x", "c", "h", "a", "n", "g", "e", " ", "r", "a",
      "t", "e", " ", "d", "a", "t", "a", " ", "f", "o", "u", "n", "d", " ",
      "i", "n", " ", "r", "e", "s", "p", "o", "n", "s", "e">>

NoTimeSeriesText ==
    <<"N", "o", " ", "t", "i", "m", "e", " ", "s", "e", "r", "i", "e", "s",
      " ", "d", "a", "t", "a", " ", "f", "o", "u", "n", "d", " ", "i", "n",
      " ", "r", "e", "s", "p", "o", "n", "s", "e">>

NoForexSeriesText ==
    <<"N", "o", " ", "f", "o", "r", "e", "x", " ", "t", "i", "m", "e", " ",
      "s", "e", "r", "i", "e", "s", " ", "d", "a", "t", "a", " ", "f", "o",
      "u", "n", "d", " ", "i", "n", " ", "r", "e", "s", "p", "o", "n", "s",
      "e">>

NoTechnicalText ==
    <<"N", "o", " ", "t", "e", "c", "h", "n", "i", "c", "a", "l", " ", "a",
      "n", "a", "l", "y", "s", "i", "s", " ", "d", "a", "t", "a", " ", "f",
      "o", "u", "n", "d", " ", "i", "n", " ", "r", "e", "s", "p", "o", "n",
      "s", "e">>

UnknownIndicatorPrefix ==
    <<"U", "n", "k", "n", "o", "w", "n", " ", "i", "n", "d", "i", "c", "a",
      "t", "o", "r", " ", "'">>

AvailablePrefix ==
    <<"'", ".", " ", "A", "v", "a", "i", "l", "a", "b", "l", "e", " ", "i",
      "n", "d", "i", "c", "a", "t", "o", "r", "s", ":", " ">>

TxtLowerSma ==
    <<"s", "m", "a">>

TxtRsi ==
    <<"R", "S", "I">>

TxtUnknown ==
    <<"U", "N", "K", "N", "O", "W", "N">>

TxtLowerSmaX ==
    <<"s", "m", "a", "x">>

\* str.upper() on one character
UpperChar(c) ==
    IF \E i \in 1..Len(LowerLetters) : LowerLetters[i] = c
    THEN UpperLetters[CHOOSE i \in 1..Len(LowerLetters) : LowerLetters[i] = c]
    ELSE c

\* str.upper()
StrUpper(s) == [i \in 1..Len(s) |-> UpperChar(s[i])]

\* the keys of IndicatorsEndpoint.INDICATORS, in the order of the table
INDICATORS ==
    << <<"S", "M", "A">>,
       <<"E", "M", "A">>,
       <<"W", "M", "A">>,
       <<"D", "E", "M", "A">>,
       <<"T", "E", "M", "A">>,
       <<"T", "R", "I", "M", "A">>,
       <<"K", "A", "M", "A">>,
       <<"M", "A", "M", "A">>,
       <<"V", "W", "A", "P">>,
       <<"T", "3">>,
       <<"M", "A", "C", "D">>,
       <<"M", "A", "C", "D", "E", "X", "T">>,
       <<"S", "T", "O", "C", "H">>,
       <<"S", "T", "O", "C", "H", "F">>,
       <<"R", "S", "I">>,
       <<"S", "T", "O", "C", "H", "R", "S", "I">>,
       <<"W", "I", "L", "L", "R">>,
       <<"A", "D", "X">>,
       <<"A", "D", "X", "R">>,
       <<"A", "P", "O">>,
       <<"P", "P", "O">>,
       <<"M", "O", "M">>,
       <<"B", "O", "P">>,
       <<"C", "C", "I">>,
       <<"C", "M", "O">>,
       <<"R", "O", "C">>,
       <<"R", "O", "C", "R">>,
       <<"A", "R", "O", "O", "N">>,
       <<"A", "R", "O", "O", "N", "O", "S", "C">>,
       <<"M", "F", "I">>,
       <<"T", "R", "I", "X">>,
       <<"U", "L", "T", "O", "S", "C">>,
       <<"D", "X">>,
       <<"M", "I", "N", "U", "S", "_", "D", "I">>,
       <<"P", "L", "U", "S", "_", "D", "I">>,
       <<"M", "I", "N", "U", "S", "_", "D", "M">>,
       <<"P", "L", "U", "S", "_", "D", "M">>,
       <<"B", "B", "A", "N", "D", "S">>,
       <<"M", "I", "D", "P", "O", "I", "N", "T">>,
       <<"M", "I", "D", "P", "R", "I", "C", "E">>,
       <<"S", "A", "R">>,
       <<"T", "R", "A", "N", "G", "E">>,
       <<"A", "T", "R">>,
       <<"N", "A", "T", "R">>,
       <<"C", "H", "A", "I", "K", "I", "N">>,
       <<"A", "D">>,
       <<"A", "D", "O", "S", "C">>,
       <<"O", "B", "V">>,
       <<"H", "T", "_", "T", "R", "E", "N", "D", "L", "I", "N", "E">>,
       <<"H", "T", "_", "S", "I", "N", "E">>,
       <<"H", "T", "_", "T", "R", "E", "N", "D", "M", "O", "D", "E">>,
       <<"H", "T", "_", "D", "C", "P", "E", "R", "I", "O", "D">>,
       <<"H", "T", "_", "D", "C", "P", "H", "A", "S", "E">>,
       <<"H", "T", "_", "P", "H", "A", "S", "O", "R">> >>

\* `indicator in self.INDICATORS`
IsIndicator(indicator) ==
    \E i \in 1..Len(INDICATORS) : INDICATORS[i] = indicator

\* the element of a non-empty sequence of texts that sorts first
Least(names) ==
    CHOOSE n \in {names[i] : i \in 1..Len(names)} :
        \A i \in 1..Len(names) : ~StrLess(names[i], n)

\* the sequence without its element at index i
Without(names, i) ==
    [j \in 1..(Len(names) - 1) |-> IF j < i THEN names[j] ELSE names[j + 1]]

\* sorted(names) for texts that are all different
RECURSIVE Sorted(_)
Sorted(names) ==
    IF names = <<>> THEN <<>>
    ELSE LET i == CHOOSE j \in 1..Len(names) : names[j] = Least(names)
         IN  <<names[i]>> \o Sorted(Without(names, i))

\* ", ".join(sorted(self.INDICATORS.keys()))
AvailableIndicators == Join(Sorted(INDICATORS), <<",", " ">>)

\* get_indicator accepting every name
ValidateIndicatorAcceptsAll(indicator) == NoError

\* the check get_indicator makes on the upper-cased name before it builds
\* the parameters of the request
ValidateIndicator(indicator) ==
    IF ~IsIndicator(indicator)
    THEN Raise("AlphaVantageError",
               UnknownIndicatorPrefix \o indicator \o AvailablePrefix
                   \o AvailableIndicators)
    ELSE NoError

\* the texts of the keys of a reply
KeyText ==
    [k \in {"Meta Data", "Global Quote", "Realtime Currency Exchange Rate",
            "Time Series (Daily)", "Time Series FX (Daily)",
            "Technical Analysis: SMA", "Error Message"} |->
        CASE k = "Meta Data" -> MetaDataText
          [] k = "Global Quote" -> GlobalQuoteText
          [] k = "Realtime Currency Exchange Rate" -> ExchangeRateText
          [] k = "Time Series (Daily)" -> DailySeriesText
          [] k = "Time Series FX (Daily)" -> FxDailySeriesText
          [] k = "Technical Analysis: SMA" -> SmaAnalysisText
          [] OTHER -> <<>>]

\* the adapters: whether the block is looked up by its exact key or by the
\* first key containing the pattern, and the message when there is none
Adapters ==
    [get_quote |->
         [exact |-> TRUE, pattern |-> GlobalQuoteText,
          missing |-> NoQuoteText],
     get_daily |->
         [exact |-> FALSE, pattern |-> TimeSeriesPattern,
          missing |-> NoTimeSeriesText],
     get_exchange_rate |->
         [exact |-> TRUE, pattern |-> ExchangeRateText,
          missing |-> NoExchangeRateText],
     forex_get_daily |->
         [exact |-> FALSE, pattern |-> ForexSeriesPattern,
          missing |-> NoForexSeriesText],
     get_indicator |->
         [exact |-> FALSE, pattern |-> TechnicalPattern,
          missing |-> NoTechnicalText]]

\* the parameters the adapter of a command builds for _make_request
AdapterQuery(c) ==
    CASE c.adapter = "get_quote" -> QuoteQuery
      [] c.adapter = "get_daily" ->
             [function |-> "TIME_SERIES_DAILY", symbol |-> "AAPL",
              outputsize |-> "compact"]
      [] c.adapter = "get_exchange_rate" ->
             [function |-> "CURRENCY_EXCHANGE_RATE",
              from_currency |-> "USD", to_currency |-> "EUR"]
      [] c.adapter = "forex_get_daily" ->
             [function |-> "FX_DAILY", from_symbol |-> "USD",
              to_symbol |-> "EUR", outputsize |-> "compact"]
      [] OTHER ->
             [function |-> StrUpper(c.indicator), symbol |-> "AAPL",
              interval |-> "daily"]

\* `"Global Quote" in data` for the adapters with an exact key,
\* `pattern in key` for the others
KeyMatches(a, k) ==
    IF Adapters[a].exact THEN KeyText[k] = Adapters[a].pattern
    ELSE StrContains(Adapters[a].pattern, KeyText[k])

\* the adapters' loop taking the last key that matches
RECURSIVE FindKeyLast(_, _)
FindKeyLast(a, order) ==
    IF order = <<>> THEN ""
    ELSE IF KeyMatches(a, order[Len(order)]) THEN order[Len(order)]
    ELSE FindKeyLast(a, SubSeq(order, 1, Len(order) - 1))

\* `for key in data.keys(): if pattern in key: ...; break` over the keys in
\* their iteration order: the key found, "" when the loop ends without one
RECURSIVE FindKey(_, _)
FindKey(a, order) ==
    IF order = <<>> THEN ""
    ELSE IF KeyMatches(a, Head(order)) THEN Head(order)
    ELSE FindKey(a, Tail(order))

\* the orders in which the keys of a reply may be iterated
RECURSIVE Orders(_)
Orders(keys) ==
    IF keys = {} THEN {<<>>}
    ELSE UNION {{<<k>> \o o : o \in Orders(keys \ {k})} : k \in keys}

\* the block each key of a reply carries
BlockOf ==
    [k \in DOMAIN KeyText |->
        CASE k = "Meta Data" ->
                 Mapping(<<Item(<<"2", ".", " ", "S", "y", "m", "b", "o",
                                  "l">>, Scalar(TxtIBM))>>)
          [] k = "Global Quote" ->
                 Mapping(<<Item(<<"0", "5", ".", " ", "p", "r", "i", "c",
                                  "e">>, Scalar(<<"1", "5", "0">>))>>)
          [] k = "Realtime Currency Exchange Rate" ->
                 Mapping(<<Item(<<"5", ".", " ", "E", "x", "c", "h", "a",
                                  "n", "g", "e", " ", "R", "a", "t", "e">>,
                                Scalar(<<"2">>))>>)
          [] k = "Time Series (Daily)" ->
                 Mapping(<<Item(DayOne,
                                Mapping(<<Item(OpenLabel,
                                               Scalar(<<"1">>))>>))>>)
          [] k = "Time Series FX (Daily)" ->
                 Mapping(<<Item(DayOne,
                                Mapping(<<Item(DateLabel,
                                               Scalar(<<"1">>))>>))>>)
          [] k = "Technical Analysis: SMA" ->
                 Mapping(<<Item(DayTwo,
                                Mapping(<<Item(<<"S", "M", "A">>,
                                               Scalar(<<"3">>))>>))>>)
          [] OTHER -> Str(TxtInvalidSymbol)]

\* the replies of the commands' requests: the bodies of at most two data
\* keys, an error body, a reply that is no JSON, an error status, a timeout
CliOutcomes ==
    Responses({200},
              {[k \in S |-> BlockOf[k]] :
                   S \in {S \in SUBSET (DOMAIN KeyText \ {"Error Message"}) :
                              Cardinality(S) <= 2}})
    \cup Responses({200, 401}, {[k \in {"Error Message"} |-> BlockOf[k]]})
    \cup Unparsable({200})
    \cup {o \in TransportFaults : o.kind = "Timeout"}

\* the names get_indicator is called with
IndicatorNames == {TxtLowerSma, TxtRsi, TxtUnknown, TxtLowerSmaX, <<>>}

\* the data commands: the adapter each one calls and its indicator option
Commands ==
    {[NoCommand EXCEPT !.pc = "client", !.adapter = a] :
         a \in DOMAIN Adapters \ {"get_indicator"}}
    \cup {[NoCommand EXCEPT !.pc = "client", !.adapter = "get_indicator",
                            !.indicator = n] : n \in IndicatorNames}

\* Fail leaving the exit status of a completed command
FailWithStatusZero(c, kind, msg) ==
    [c EXCEPT !.pc = "exit",
              !.failure = [kind |-> kind, msg |-> msg],
              !.printed = [stream |-> "stderr",
                           text |-> ErrorPrefix \o msg \o <<"\n">>,
                           data |-> NoData],
              !.exit = 0]

\* the except clauses of a command: echo "Error: <message>" on stderr and
\* sys.exit(1)
Fail(c, kind, msg) ==
    [c EXCEPT !.pc = "exit",
              !.failure = [kind |-> kind, msg |-> msg],
              !.printed = [stream |-> "stderr",
                           text |-> ErrorPrefix \o msg \o <<"\n">>,
                           data |-> NoData],
              !.exit = 1]

\* get_client when the constructor raises APIKeyError: the message, the
\* hint where to get a key, sys.exit(1)
ClientFails ==
    /\ cmd.pc = "client"
    /\ built = "APIKeyError"
    /\ cmd' = [Fail(cmd, "APIKeyError", ApiKeyRequiredText) EXCEPT
                  !.printed.text = @ \o ApiKeyHintText \o <<"\n">>]
    /\ UNCHANGED <<clientVars, ctorVars, fmtVars>>

\* the command enters the adapter; get_indicator upper-cases and checks its
\* name first
AdapterEnter ==
    /\ cmd.pc = "client"
    /\ built = "ready"
    /\ LET e == IF cmd.adapter = "get_indicator"
                THEN ValidateIndicator(StrUpper(cmd.indicator))
                ELSE NoError
       IN  IF e.kind # "none"
           THEN cmd' = Fail(cmd, e.kind, e.msg)
           ELSE cmd' = [cmd EXCEPT !.pc = "request"]
    /\ UNCHANGED <<clientVars, ctorVars, fmtVars>>

\* self.client._make_request(params) returns to the adapter or raises
\* through it: the adapter looks for its block and hands it to
\* format_output, or raises when the reply has none
AdapterReturn ==
    /\ cmd.pc = "request"
    /\ pc[1] = "done"
    /\ pc' = [pc EXCEPT ![1] = "idle"]
    /\ query' = [query EXCEPT ![1] = NoQuery]
    /\ arg' = [arg EXCEPT ![1] = NoQuery]
    /\ sent' = [sent EXCEPT ![1] = NoRequest]
    /\ reply' = [reply EXCEPT ![1] = NoReply]
    /\ result' = [result EXCEPT ![1] = NoResult]
    /\ IF result[1].kind # "ok"
       THEN /\ cmd' = Fail(cmd, result[1].kind, result[1].msg.s)
            /\ UNCHANGED payload
       ELSE \E order \in Orders(DOMAIN result[1].data) :
                LET key == FindKey(cmd.adapter, order) IN
                IF key = ""
                THEN /\ cmd' = [Fail(cmd, "AlphaVantageError",
                                     Adapters[cmd.adapter].missing)
                                   EXCEPT !.order = order]
                     /\ UNCHANGED payload
                ELSE /\ cmd' = [cmd EXCEPT !.pc = "format", !.order = order]
                     /\ payload' = result[1].data[key]
    /\ UNCHANGED <<clock, api_key, base_url, rate_limit_delay,
                   last_request_time, wake, calls, ctorVars, mode,
                   formatted, series>>

\* format_output has returned or raised: the command echoes the data and
\* ends with status 0, or echoes the failure and exits with status 1
CommandEnds ==
    /\ cmd.pc = "format"
    /\ formatted # NoFormatted
    /\ IF formatted.kind = "ok"
       THEN cmd' = [cmd EXCEPT
                       !.pc = "exit",
                       !.printed = [stream |-> "stdout",
                                    text |-> formatted.text,
                                    data |-> formatted.data],
                       !.exit = 0]
       ELSE cmd' = Fail(cmd, formatted.kind, formatted.msg)
    /\ UNCHANGED <<clientVars, ctorVars, fmtVars>>

(***************************************************************************)
(* SpecCli: one data command from the creation of its client to its exit.  *)
(***************************************************************************)
InitCli ==
    /\ clock = 0
    /\ api_key = ""
    /\ base_url = ""
    /\ rate_limit_delay = 0
    /\ last_request_time = 0
    /\ pc = [t \in {1} |-> "idle"]
    /\ query = [t \in {1} |-> NoQuery]
    /\ arg = [t \in {1} |-> NoQuery]
    /\ wake = [t \in {1} |-> 0]
    /\ sent = [t \in {1} |-> NoRequest]
    /\ reply = [t \in {1} |-> NoReply]
    /\ result = [t \in {1} |-> NoResult]
    /\ calls = <<>>
    /\ built = "no"
    /\ ctor \in {c \in CtorInputs :
                     /\ c.api_key \in {NoneStr, SomeStr("param_key")}
                     /\ c.env_key = NoneStr
                     /\ c.cfg_key = NoneStr
                     /\ c.base_url = NoneStr
                     /\ c.delay = SomeNum(1)
                     /\ c.cfg_delay = SomeNum(DefaultDelay)}
    /\ payload = NoData
    /\ mode \in {JsonMode, CsvMode}
    /\ formatted = NoFormatted
    /\ series = NoSeries
    /\ cmd \in Commands

NextCli ==
    \/ cmd.pc = "client" /\ Construct
    \/ ClientFails
    \/ AdapterEnter
    \/ cmd.pc = "request" /\ Tick(MaxDelay)
    \/ cmd.pc = "request" /\ Call(1, AdapterQuery(cmd), 1)
    \/ RateLimitCheck(1)
    \/ SleepReturns(1)
    \/ RateLimitStamp(1)
    \/ \E out \in CliOutcomes : Dispatch(1, out)
    \/ AdapterReturn
    \/ cmd.pc = "format" /\ Format
    \/ CommandEnds

SpecCli == InitCli /\ [][NextCli]_vars

(***************************************************************************)
(* Properties.                                                             *)
(***************************************************************************)
\* thread t's call has ended and its reply was parsed as JSON
Parsed(t) ==
    /\ pc[t] = "done"
    /\ reply[t].kind = "response"
    /\ reply[t].status < 400
    /\ reply[t].json_ok

\* the error/notice keys of thread t's reply
Present(t) == DOMAIN reply[t].body \cap ErrorKeys

\* C1: in a run of calls made one after the other on one client, the
\* throttle timestamps of any two consecutive calls are at least
\* rate_limit_delay apart, whatever the first call's outcome was.
C1_ConsecutiveStampsSpaced ==
    \A i \in 1..(Len(calls) - 1) :
        calls[i + 1].stamp >= 0
            => calls[i + 1].stamp - calls[i].stamp >= rate_limit_delay

\* a failed call followed by a call stamped exactly rate_limit_delay later
C1_Witness ==
    \E i \in 1..(Len(calls) - 1) :
        /\ calls[i].outcome = "NetworkError"
        /\ calls[i + 1].stamp = calls[i].stamp + rate_limit_delay

\* C2: with several threads calling _make_request on one client, under
\* every interleaving of the throttle's read, wait and update steps, any
\* two dispatches are at least rate_limit_delay apart.
C2_ThreadedStampsSpaced ==
    \A i, j \in 1..Len(calls) :
        (i < j /\ calls[i].outcome # "pending" /\ calls[j].outcome # "pending")
            => \/ calls[j].stamp - calls[i].stamp >= rate_limit_delay
               \/ calls[i].stamp - calls[j].stamp >= rate_limit_delay

\* C3: the request dispatched carries the Query's parameters plus exactly
\* one more field, apikey, holding the credential; the caller's Query is as
\* it was passed and never holds the credential.
C3_CredentialAddedToCopy ==
    \A t \in DOMAIN pc :
        /\ pc[t] # "idle" => (query[t] = arg[t] /\ "apikey" \notin DOMAIN query[t])
        /\ pc[t] = "done" =>
            /\ DOMAIN sent[t].params = DOMAIN arg[t] \cup {"apikey"}
            /\ Cardinality(DOMAIN sent[t].params)
                   = Cardinality(DOMAIN arg[t]) + 1
            /\ \A k \in DOMAIN arg[t] : sent[t].params[k] = arg[t][k]
            /\ sent[t].params["apikey"] = api_key

\* a call with the intraday Query has been dispatched
C3_Witness ==
    /\ pc[1] = "done"
    /\ arg[1] = IntradayQuery
    /\ sent[1].params["apikey"] = api_key
    /\ sent[1].params["interval"] = "5min"

\* C4: a parsed body holding any of "Error Message", "Information", "Note"
\* is never returned as a success, whatever its values and other keys; a
\* parsed body holding none of them is returned unchanged.
C4_ErrorKeysNeverSucceed ==
    Parsed(1) =>
        IF Present(1) # {}
        THEN result[1].kind # "ok"
        ELSE result[1].kind = "ok" /\ result[1].data = reply[1].body

\* a body with a data block and a "Note" that is not text has been refused
C4_Witness ==
    /\ Parsed(1)
    /\ DOMAIN reply[1].body = {"Note", "Global Quote"}
    /\ reply[1].body["Note"] = Num
    /\ result[1].kind # "ok"

\* "call frequency"
CallFrequencyNeedle ==
    <<"c", "a", "l", "l", " ", "f", "r", "e", "q", "u", "e", "n", "c", "y">>

\* C5: a parsed reply whose "Note" is the API's call-frequency notice makes
\* _make_request fail with RateLimitError.
C5_CallFrequencyNoteThrottles ==
    ( /\ Parsed(1)
      /\ Present(1) = {"Note"}
      /\ reply[1].body["Note"].t = "str"
      /\ StrContains(CallFrequencyNeedle, reply[1].body["Note"].s) )
        => result[1].kind = "RateLimitError"

\* the key of a body that comes first in the order Error Message,
\* Information, Note
FirstKey(body) ==
    IF "Error Message" \in DOMAIN body THEN "Error Message"
    ELSE IF "Information" \in DOMAIN body THEN "Information"
    ELSE "Note"

\* C6: when a parsed reply holds more than one of the three keys, the
\* failure is the one the reply would give with only the first of them in
\* the order Error Message, Information, Note: the failure's kind and
\* message come from that key's value alone.
C6_FirstKeyDecides ==
    (Parsed(1) /\ Cardinality(Present(1)) >= 2) =>
        LET k == FirstKey(reply[1].body)
            v == reply[1].body[k]
            alone == [reply[1] EXCEPT !.body = [x \in {k} |-> v]]
        IN  /\ result[1] = MakeRequestOutcome(alone)
            /\ result[1].msg \in {v, Null, Str(PremiumPrefix \o v.s)}
            /\ k = "Error Message" =>
                   result[1].kind \in {"InvalidSymbolError",
                                       "AlphaVantageError", "TypeError"}
            /\ k = "Information" =>
                   result[1].kind \in {"APIKeyError", "AlphaVantageError",
                                       "TypeError", "AttributeError"}

\* "Information" and "Note" both present with texts that classify apart
C6_Witness ==
    /\ Parsed(1)
    /\ Present(1) = {"Information", "Note"}
    /\ reply[1].body["Information"] = Str(TxtKeyAndPremium)
    /\ reply[1].body["Note"] = Str(TxtRateLimit)
    /\ result[1].kind = "APIKeyError"

\* C7: a parsed reply with a text "Error Message" fails with
\* InvalidSymbolError when the text contains "Invalid API call" and with
\* plain AlphaVantageError otherwise, carrying the text unchanged; it is not
\* wrapped as NetworkError.
C7_ErrorMessageClassified ==
    (Parsed(1) /\ "Error Message" \in Present(1)
        /\ reply[1].body["Error Message"].t = "str") =>
        LET text == reply[1].body["Error Message"] IN
        /\ result[1].kind =
               IF StrContains(InvalidApiCallNeedle, text.s)
               THEN "InvalidSymbolError" ELSE "AlphaVantageError"
        /\ result[1].msg = text

\* {"Error Message": "Invalid API call for symbol XYZ"} has been classified
C7_Witness ==
    /\ Parsed(1)
    /\ DOMAIN reply[1].body = {"Error Message"}
    /\ reply[1].body["Error Message"] = Str(TxtInvalidSymbol)
    /\ result[1].kind = "InvalidSymbolError"

\* C8: a parsed reply with a text "Information" and no "Error Message"
\* fails with APIKeyError when the text contains "API key"; else with
\* AlphaVantageError "Premium feature required: ..." when the text holds
\* "premium" or "subscription" in any letter case; else with plain
\* AlphaVantageError.  A text holding both gives APIKeyError.
C8_InformationClassified ==
    (Parsed(1) /\ "Information" \in Present(1)
        /\ "Error Message" \notin Present(1)
        /\ reply[1].body["Information"].t = "str") =>
        LET text == reply[1].body["Information"]
            low == StrLower(text.s)
        IN  IF StrContains(ApiKeyNeedle, text.s)
            THEN result[1].kind = "APIKeyError" /\ result[1].msg = text
            ELSE IF \/ StrContains(PremiumNeedle, low)
                    \/ StrContains(SubscriptionNeedle, low)
            THEN /\ result[1].kind = "AlphaVantageError"
                 /\ result[1].msg = Str(PremiumPrefix \o text.s)
            ELSE result[1].kind = "AlphaVantageError" /\ result[1].msg = text

\* an "Information" text naming both an API key and Premium plans has been
\* classified as APIKeyError
C8_Witness ==
    /\ Parsed(1)
    /\ Present(1) = {"Information"}
    /\ reply[1].body["Information"] = Str(TxtKeyAndPremium)
    /\ StrContains(PremiumNeedle, StrLower(TxtKeyAndPremium))
    /\ result[1].kind = "APIKeyError"

NetworkErrorWithStatus(t) ==
    /\ result[t].kind = "NetworkError"
    /\ StrContains(HttpErrorPrefix \o IntToStr(reply[t].status), result[t].msg.s)

\* timeouts and connection failures give NetworkError, 401 APIKeyError,
\* 429 RateLimitError
FaultsAnd401And429(t) ==
    /\ reply[t].kind \in {"Timeout", "ConnectTimeout", "ConnectionError"}
           => result[t].kind = "NetworkError"
    /\ (reply[t].kind = "response" /\ reply[t].status = 401)
           => result[t].kind = "APIKeyError"
    /\ (reply[t].kind = "response" /\ reply[t].status = 429)
           => result[t].kind = "RateLimitError"

C11_UnparsableIsApiFailure ==
    ( /\ pc[1] = "done"
      /\ reply[1].kind = "response"
      /\ reply[1].status \in 200..299
      /\ ~reply[1].json_ok )
        => /\ result[1].kind = "AlphaVantageError"
           /\ result[1].msg = Str(InvalidJsonPrefix \o reply[1].text)
           /\ result[1].data = NoBody

\* a 200 reply that is not JSON has ended as AlphaVantageError
C11_Witness ==
    /\ pc[1] = "done"
    /\ reply[1].kind = "response"
    /\ reply[1].status = 200
    /\ ~reply[1].json_ok
    /\ result[1].kind = "AlphaVantageError"

\* C12: every failure _make_request surfaces, for every transport outcome
\* and every reply body, is one of the classes of the AlphaVantageError
\* taxonomy.
C12_FailuresInTaxonomy ==
    (pc[1] = "done" /\ result[1].kind # "ok") => result[1].kind \in Taxonomy

\* the stamp of the call before call i, or the initial 0.0 of
\* _last_request_time
StampBefore(i) == IF i > 1 THEN calls[i - 1].stamp ELSE 0

\* C13: every call writes _last_request_time exactly once, after any
\* throttle wait and before its dispatch, whether the dispatch then
\* succeeds or fails: until the write the field holds the previous call's
\* stamp, from the write on it holds this call's stamp, also after a failed
\* dispatch, so the call after a failed call is spaced from it.
C13_StampOncePerCall ==
    Len(calls) > 0 =>
        LET n == Len(calls) IN
        /\ pc[1] \in {"rate_limit", "sleep", "stamp"} =>
               /\ calls[n].stamp = -1
               /\ last_request_time = StampBefore(n)
        /\ pc[1] \in {"dispatch", "done", "idle"} =>
               /\ last_request_time = calls[n].stamp
               /\ calls[n].stamp >= wake[1]
               /\ calls[n].stamp <= clock
               /\ calls[n].stamp >= StampBefore(n) + rate_limit_delay
        /\ pc[1] \in {"done", "idle"} => calls[n].outcome # "pending"
        /\ pc[1] = "dispatch" => calls[n].outcome = "pending"

\* a call that slept, stamped and then failed, its stamp still in place
C13_Witness ==
    /\ Len(calls) = 2
    /\ pc[1] = "idle"
    /\ calls[2].outcome = "NetworkError"
    /\ calls[2].stamp = wake[1]
    /\ last_request_time = calls[2].stamp
    /\ clock > calls[2].stamp

\* C14: a call makes exactly one session.get call, whatever its outcome,
\* and a failure is raised, never replaced by a value: the call returns
\* data only for a parsed reply without error/notice keys, and then the
\* reply's own body.
C14_OneRequestNoFallback ==
    /\ pc[1] \in {"rate_limit", "sleep", "stamp", "dispatch"} =>
           calls[CallOf(1)].requests = 0
    /\ pc[1] = "done" =>
           /\ calls[CallOf(1)].requests = 1
           /\ calls[CallOf(1)].outcome = result[1].kind
           /\ result[1].kind = "ok" =>
                  /\ Parsed(1)
                  /\ Present(1) = {}
                  /\ result[1].data = reply[1].body
           /\ result[1].kind # "ok" => result[1].data = NoBody

\* a timed-out call has ended as NetworkError after one request
C14_Witness ==
    /\ pc[1] = "done"
    /\ reply[1].kind = "Timeout"
    /\ result[1].kind = "NetworkError"
    /\ calls[CallOf(1)].requests = 1

\* what each outcome of OutcomeSample is classified as
ExpectedKind(out) ==
    IF out.kind = "Timeout" \/ out.status = 404 THEN "NetworkError"
    ELSE IF ~out.json_ok THEN "AlphaVantageError"
    ELSE IF "Error Message" \in DOMAIN out.body THEN "InvalidSymbolError"
    ELSE IF "Note" \in DOMAIN out.body THEN "RateLimitError"
    ELSE "ok"

\* C15: no step changes the credential, the base URL or rate_limit_delay,
\* and a call made after a failed call is throttled, dispatched and
\* classified as on a client that never failed.
C15_FailureLeavesClientUsable ==
    [][ /\ api_key' = api_key
        /\ base_url' = base_url
        /\ rate_limit_delay' = rate_limit_delay
        /\ ( /\ pc[1] = "dispatch"
             /\ pc'[1] = "done"
             /\ \E i \in 1..(Len(calls) - 1) : calls[i].outcome # "ok" )
           => /\ sent'[1].url = base_url
              /\ sent'[1].params = AddApiKey(arg[1], api_key).sent
              /\ sent'[1].params["apikey"] = "demo"
              /\ result'[1].kind = ExpectedKind(reply'[1])
              /\ result'[1].kind = "ok" => result'[1].data = reply'[1].body
              /\ calls'[Len(calls)].stamp - calls[Len(calls) - 1].stamp
                     >= rate_limit_delay
      ]_vars

\* a call that succeeded after a call that timed out
C15_Witness ==
    /\ Len(calls) = 2
    /\ calls[1].outcome = "NetworkError"
    /\ pc[1] = "done"
    /\ result[1].kind = "ok"
    /\ result[1].data = reply[1].body

\* a value that is present: neither None nor the empty text
NonEmpty(x) == x.t = "str" /\ x.v # ""

\* C16: the credential of a constructed client is the first non-empty value
\* among the api_key argument, ALPHA_VANTAGE_API_KEY and the configuration
\* value, in that order; when none is present the constructor raises
\* APIKeyError, no client exists and no request is ever dispatched.
C16_CredentialPrecedence ==
    /\ built = "ready" =>
           /\ api_key # ""
           /\ api_key =
                  IF NonEmpty(ctor.api_key) THEN ctor.api_key.v
                  ELSE IF NonEmpty(ctor.env_key) THEN ctor.env_key.v
                  ELSE ctor.cfg_key.v
    /\ ( /\ ~NonEmpty(ctor.api_key)
         /\ ~NonEmpty(ctor.env_key)
         /\ ~NonEmpty(ctor.cfg_key) ) => built \in {"no", "APIKeyError"}
    /\ built = "APIKeyError" =>
           /\ ~NonEmpty(ctor.api_key)
           /\ ~NonEmpty(ctor.env_key)
           /\ ~NonEmpty(ctor.cfg_key)
    /\ built # "ready" =>
           /\ calls = <<>>
           /\ pc[1] = "idle"
           /\ sent[1] = NoRequest

\* a client built with an empty argument and both other sources set has
\* dispatched a request carrying the environment's key
C16_Witness ==
    /\ built = "ready"
    /\ ctor.api_key = SomeStr("")
    /\ ctor.env_key = SomeStr("env_key")
    /\ ctor.cfg_key = SomeStr("file_key")
    /\ pc[1] = "done"
    /\ sent[1].params["apikey"] = "env_key"

\* the constructor has raised APIKeyError
C16_NoKeyWitness ==
    /\ built = "APIKeyError"
    /\ ctor.env_key = SomeStr("")

\* format_output has returned or raised
Formatted == formatted.kind # "none"

\* C17: in json mode format_output returns the payload it was given, for
\* every payload: the empty one, texts, flat, nested and mixed dicts; it
\* raises nothing and builds no text.
C17_JsonIsIdentity ==
    (Formatted /\ StrLower(mode) = JsonMode) =>
        /\ formatted.kind = "ok"
        /\ formatted.data = payload
        /\ formatted.text = <<>>

\* a nested payload has come back from the json mode written in capitals
C17_Witness ==
    /\ Formatted
    /\ mode = UpperJson
    /\ IsDict(payload)
    /\ Len(payload.d) = 2
    /\ IsDict(payload.d[1].v)
    /\ formatted.data = payload

\* C18 as stated: every mode other than the texts json and csv makes
\* format_output raise DataFormatError
C18_OtherModesFail ==
    (Formatted /\ mode \notin {JsonMode, CsvMode}) =>
        formatted.kind = "DataFormatError"

\* C18: every mode that is neither json nor csv once lower-cased makes
\* format_output raise DataFormatError naming the mode, for every payload,
\* and nothing is returned; the modes JSON and CSV are accepted.
C18_UnknownModesFail ==
    /\ (Formatted /\ StrLower(mode) \notin {JsonMode, CsvMode}) =>
           /\ formatted.kind = "DataFormatError"
           /\ formatted.msg = UnsupportedPrefix \o mode
           /\ formatted.data = NoData
           /\ formatted.text = <<>>
    /\ (Formatted /\ mode \in {UpperJson, UpperCsv}) =>
           formatted.msg # UnsupportedPrefix \o mode

\* xml has been refused for a payload of two items
C18_Witness ==
    /\ mode = XmlMode
    /\ IsDict(payload)
    /\ Len(payload.d) = 2
    /\ formatted.kind = "DataFormatError"

\* a key holds one of the separators or is at least eight characters long
DateLikeKey(key) ==
    \/ \E i \in 1..Len(key) : key[i] \in {"-", "/", ":"}
    \/ Len(key) >= 8

\* C19: is_time_series_data is true of a dict exactly when every value is a
\* dict and every key holds '-', '/' or ':' or has at least 8 characters:
\* true of the empty dict, false with one text value or one short key
\* without separator.
C19_TimeSeriesExactly ==
    (series.called /\ IsDict(payload)) =>
        ( series.val <=>
              \A i \in 1..Len(payload.d) :
                  /\ payload.d[i].v.t = "dict"
                  /\ DateLikeKey(payload.d[i].k) )

\* a dict keyed by an eight-digit day and a time has been classified as a
\* time series
C19_Witness ==
    /\ series.called
    /\ series.val
    /\ IsDict(payload)
    /\ Len(payload.d) = 2
    /\ payload.d[1].k = CompactDay
    /\ payload.d[2].k = ClockKey

\* a dict whose second key is short and has no separator has been refused
C19_ShortKeyWitness ==
    /\ series.called
    /\ ~series.val
    /\ IsDict(payload)
    /\ Len(payload.d) = 2
    /\ payload.d[1].k = DayOne
    /\ payload.d[2].k = OpenLabel
    /\ IsDict(payload.d[1].v)
    /\ IsDict(payload.d[2].v)

\* the empty dict has been formatted under a csv mode
EmptyAsCsv ==
    /\ Formatted
    /\ payload = Mapping(<<>>)
    /\ StrLower(mode) = CsvMode

\* C20 as stated: the csv text of the empty dict comes from the time series
\* branch, as for any payload is_time_series_data accepts
C20_EmptyIsTimeSeries ==
    EmptyAsCsv =>
        /\ formatted.branch = "time_series"
        /\ formatted.text = TimeSeriesToCsv(payload).text

\* C20: the csv text of the empty dict is the empty text, returned by the
\* empty check of convert_to_csv before any classification, although
\* is_time_series_data accepts the empty dict and time_series_to_csv would
\* write a header line for it; every other payload is_time_series_data
\* accepts goes through time_series_to_csv.
C20_EmptyReturnsEmptyText ==
    /\ EmptyAsCsv =>
           /\ formatted.kind = "ok"
           /\ formatted.branch = "empty"
           /\ formatted.text = <<>>
           /\ IsTimeSeriesData(payload)
           /\ TimeSeriesToCsv(payload).text = DateLabel \o <<"\n">>
    /\ ( /\ Formatted
         /\ StrLower(mode) = CsvMode
         /\ PyTruth(payload)
         /\ IsTimeSeriesData(payload)
         /\ formatted.kind = "ok" ) =>
           /\ formatted.branch = "time_series"
           /\ formatted.text = TimeSeriesToCsv(payload).text

C20_Witness ==
    /\ EmptyAsCsv
    /\ mode = CsvMode
    /\ formatted.kind = "ok"

\* C21: for the empty dict, format_output under a csv mode raises nothing
\* and returns one fixed text, the empty text.
C21_EmptyDoesNotRaise ==
    EmptyAsCsv =>
        /\ formatted.kind = "ok"
        /\ formatted.text = <<>>
        /\ formatted.msg = <<>>

\* the empty dict has been formatted under the mode written CSV
C21_Witness ==
    /\ EmptyAsCsv
    /\ mode = UpperCsv
    /\ formatted.kind = "ok"
    /\ formatted.text = <<>>

\* the pieces of a text between the occurrences of the character sep
RECURSIVE SplitOn(_, _)
SplitOn(text, sep) ==
    IF \A i \in 1..Len(text) : text[i] # sep THEN <<text>>
    ELSE LET at == CHOOSE i \in 1..Len(text) :
                       /\ text[i] = sep
                       /\ \A j \in 1..(i - 1) : text[j] # sep
         IN  <<SubSeq(text, 1, at - 1)>>
             \o SplitOn(SubSeq(text, at + 1, Len(text)), sep)

\* the lines of a csv text, each ended by a line break
LinesOf(text) ==
    LET pieces == SplitOn(text, "\n")
    IN  SubSeq(pieces, 1, Len(pieces) - 1)

\* the first field of a line whose fields are not quoted
FirstField(line) == SplitOn(line, ",")[1]

\* format_output has returned the csv text of a time series
TimeSeriesText ==
    /\ Formatted
    /\ StrLower(mode) = CsvMode
    /\ PyTruth(payload)
    /\ IsTimeSeriesData(payload)

C23_ConversionFailureWrapped ==
    (Formatted /\ StrLower(mode) = CsvMode) =>
        /\ formatted.kind \in {"ok", "DataFormatError"}
        /\ formatted.kind = "ok" =>
               \/ formatted.text = <<>>
               \/ formatted.text[Len(formatted.text)] = "\n"
        /\ formatted.kind = "DataFormatError" =>
               /\ formatted.text = <<>>
               /\ formatted.data = NoData
               /\ TimeSeriesToCsv(payload).kind = "ValueError"
               /\ formatted.msg =
                      CsvFailedPrefix \o TimeSeriesToCsv(payload).msg
        /\ ( /\ PyTruth(payload)
             /\ IsTimeSeriesData(payload)
             /\ TimeSeriesToCsv(payload).kind # "ok" ) =>
               formatted.kind = "DataFormatError"

\* the ValueError of sort_values on two columns named date has come out
\* as DataFormatError
C23_Witness ==
    /\ Formatted
    /\ mode = CsvMode
    /\ payload \in ReservedLabelPayloads
    /\ formatted.kind = "DataFormatError"
    /\ formatted.msg = CsvFailedPrefix \o NotUniqueText

\* the labels of the header line of a csv text
HeaderOf(text) == SplitOn(LinesOf(text)[1], ",")

\* C24: the header of a csv text carries the cleaned labels: for a dict
\* rendered as one row the cleaned keys, as 'open' for the key '1. open',
\* and for a time series labels that the cleanup leaves as they are.
C24_HeadersAreCleaned ==
    ( /\ Formatted
      /\ StrLower(mode) = CsvMode
      /\ IsDict(payload)
      /\ formatted.kind = "ok" ) =>
        /\ formatted.branch \in {"flat", "mixed"} =>
               HeaderOf(formatted.text) =
                   [i \in 1..Len(payload.d) |->
                       CleanColumnName(payload.d[i].k)]
        /\ formatted.branch = "time_series" =>
               \A i \in 1..Len(HeaderOf(formatted.text)) :
                   CleanColumnName(HeaderOf(formatted.text)[i]) =
                       HeaderOf(formatted.text)[i]

\* every value of the dict is a dict and every key looks like a date
AllDatedRecords(data) ==
    \A i \in 1..Len(data.d) :
        data.d[i].v.t = "dict" /\ DateLikeKey(data.d[i].k)

\* no value of the dict is a dict
NoRecord(data) == \A i \in 1..Len(data.d) : data.d[i].v.t # "dict"

\* C26: for a non-empty dict is_time_series_data and is_flat_dict are never
\* both true, and convert_to_csv takes the time series branch exactly when
\* the first holds, the flat branch exactly when the second holds and the
\* one-row branch for the rest: texts beside records, or records under a
\* short key without separator.
C26_BranchFollowsClassification ==
    ( /\ Formatted
      /\ StrLower(mode) = CsvMode
      /\ IsDict(payload)
      /\ payload.d # <<>> ) =>
        /\ ~(IsTimeSeriesData(payload) /\ IsFlatDict(payload))
        /\ IsFlatDict(payload) <=> NoRecord(payload)
        /\ formatted.kind = "ok" =>
               /\ formatted.branch = "time_series" <=> AllDatedRecords(payload)
               /\ formatted.branch = "flat" <=> NoRecord(payload)
               /\ formatted.branch = "mixed" <=>
                      ~AllDatedRecords(payload) /\ ~NoRecord(payload)
        /\ formatted.kind # "ok" => AllDatedRecords(payload)

\* a text beside a record has been rendered as one row
C26_Witness ==
    /\ Formatted
    /\ mode = CsvMode
    /\ IsDict(payload)
    /\ Len(payload.d) = 2
    /\ ~IsDict(payload.d[1].v)
    /\ IsDict(payload.d[2].v)
    /\ formatted.branch = "mixed"

\* records under a short key without separator have been rendered as one row
C26_ShortKeyWitness ==
    /\ Formatted
    /\ mode = CsvMode
    /\ IsDict(payload)
    /\ Len(payload.d) = 2
    /\ IsDict(payload.d[1].v)
    /\ IsDict(payload.d[2].v)
    /\ payload.d[2].k = OpenLabel
    /\ formatted.branch = "mixed"

\* C27: a client constructed with a rate_limit_delay argument has that
\* value as its rate_limit_delay, and the constructor does not look at the
\* configuration value; only without the argument does the configuration
\* value, or its default of 12 seconds, apply.
C27_ExplicitDelayWins ==
    /\ (built = "ready" /\ ctor.delay.t = "float") =>
           rate_limit_delay = ctor.delay.v
    /\ (built = "ready" /\ ctor.delay.t = "None") =>
           rate_limit_delay = ctor.cfg_delay.v
    /\ built = "ValueError" => ctor.delay.t = "None"

\* the failure the status of a reply stands for
KindOfStatus(status) ==
    IF status = 401 THEN "APIKeyError"
    ELSE IF status = 429 THEN "RateLimitError"
    ELSE "NetworkError"

\* the reply of thread 1 with its body taken away
BodilessReply == [reply[1] EXCEPT !.body = NoBody, !.json_ok = FALSE]

Matching(a, k) ==
    CASE a = "get_quote" -> KeyText[k] = GlobalQuoteText
      [] a = "get_exchange_rate" -> KeyText[k] = ExchangeRateText
      [] a = "get_daily" -> StrContains(TimeSeriesPattern, KeyText[k])
      [] a = "forex_get_daily" -> StrContains(ForexSeriesPattern, KeyText[k])
      [] a = "get_indicator" -> StrContains(TechnicalPattern, KeyText[k])

\* the adapter of the command raised because its block is missing
BlockMissing ==
    /\ cmd.failure.kind = "AlphaVantageError"
    /\ cmd.failure.msg = Adapters[cmd.adapter].missing

C28_MissingWitness ==
    /\ cmd.adapter = "get_quote"
    /\ cmd.order = <<"Meta Data">>
    /\ BlockMissing
    /\ cmd.exit = 1

\* the command calls get_indicator with a name that, upper-cased, is not in
\* the table
UnknownIndicator ==
    /\ cmd.adapter = "get_indicator"
    /\ ~IsIndicator(StrUpper(cmd.indicator))

\* C29: get_indicator called with a name that, after upper-casing, is not
\* in the INDICATORS table raises AlphaVantageError before any request is
\* made: _make_request is not called, no throttle wait happens and the
\* throttle timestamp is unchanged.
C29_UnknownIndicatorNoRequest ==
    (UnknownIndicator /\ built = "ready") =>
        /\ cmd.pc \in {"client", "exit"}
        /\ cmd.pc = "exit" =>
               /\ cmd.failure.kind = "AlphaVantageError"
               /\ StrContains(UnknownIndicatorPrefix \o StrUpper(cmd.indicator)
                                  \o <<"'">>, cmd.failure.msg)
               /\ cmd.exit = 1
        /\ calls = <<>>
        /\ pc[1] = "idle"
        /\ sent[1] = NoRequest
        /\ wake[1] = 0
        /\ clock = 0
        /\ last_request_time = 0
        /\ formatted = NoFormatted

\* get_indicator("smax") has raised
C29_Witness ==
    /\ cmd.adapter = "get_indicator"
    /\ cmd.indicator = TxtLowerSmaX
    /\ cmd.pc = "exit"
    /\ cmd.failure.kind = "AlphaVantageError"
    /\ calls = <<>>

\* get_indicator("sma") is upper-cased, accepted, and makes its request
C29_KnownWitness ==
    /\ cmd.adapter = "get_indicator"
    /\ cmd.indicator = TxtLowerSma
    /\ Len(calls) = 1
    /\ sent[1] # NoRequest

\* AlphaVantageError and the classes that derive from it
FailureClasses == Taxonomy \cup {"ConfigurationError", "DataFormatError"}

\* the command has printed the message on stderr and exited with status 1
ExitedWith(c, msg) ==
    /\ c.pc = "exit"
    /\ c.exit = 1
    /\ c.printed.stream = "stderr"
    /\ StrContains(msg, c.printed.text)

\* C25: a failure of the taxonomy raised while the client is created or
\* while the command runs makes the process print the failure's message and
\* exit with status 1; a command that completes without failure exits with
\* status 0.
C25_FailureExitsOne ==
    /\ [](cmd.pc = "exit" =>
            /\ built = "APIKeyError" => ExitedWith(cmd, ApiKeyRequiredText)
            /\ formatted.kind = "DataFormatError" =>
                   ExitedWith(cmd, formatted.msg)
            /\ cmd.failure.kind \in FailureClasses =>
                   ExitedWith(cmd, cmd.failure.msg)
            /\ formatted.kind = "ok" =>
                   /\ cmd.exit = 0
                   /\ cmd.failure = NoFailure
                   /\ cmd.printed.stream = "stdout"
                   /\ cmd.printed.data = formatted.data
                   /\ cmd.printed.text = formatted.text
            /\ cmd.exit = 0 <=> cmd.failure = NoFailure
            /\ cmd.exit \in {0, 1})
    /\ [][(cmd.pc = "request" /\ pc[1] = "done" /\ pc'[1] = "idle"
              /\ result[1].kind \in FailureClasses) =>
          ExitedWith(cmd', result[1].msg.s)]_vars
    /\ [][(cmd.pc = "client" /\ cmd'.pc = "exit" /\ built = "ready") =>
          /\ UnknownIndicator
          /\ ExitedWith(cmd', UnknownIndicatorPrefix)]_vars

\* a command whose request failed with InvalidSymbolError has exited
C25_Witness ==
    /\ cmd.pc = "exit"
    /\ cmd.failure.kind = "InvalidSymbolError"
    /\ cmd.exit = 1

\* a command without an API key has exited
C25_ClientWitness ==
    /\ cmd.pc = "exit"
    /\ built = "APIKeyError"
    /\ cmd.exit = 1

\* a command whose block could not be converted to CSV has exited
C25_FormatWitness ==
    /\ cmd.pc = "exit"
    /\ formatted.kind = "DataFormatError"
    /\ cmd.exit = 1

\* a CSV command has completed
C25_CompletedWitness ==
    /\ cmd.pc = "exit"
    /\ mode = CsvMode
    /\ formatted.kind = "ok"
    /\ cmd.exit = 0
====
